---- MODULE Spec2Model ----
(***************************************************************************)
(* watsup: frames, the Ongoing/Stopped state store, the command executor   *)
(* and the two frame stores (in-memory map, Watson-compatible file).       *)
(*                                                                         *)
(* Time is counted in clock ticks, TicksPerSecond of them to a second, so  *)
(* that a DateTime carries a sub-second part and a Watson timestamp (whole *)
(* seconds) does not.  Option<T> is a sequence of length 0 (None) or 1.    *)
(***************************************************************************)
EXTENDS Integers, Sequences, FiniteSets, TLC

\* Largest clock reading, in ticks.
MaxTime == 2
\* Ticks in one second (the sub-second resolution of a DateTime).
TicksPerSecond == 2

Times == 0..MaxTime
Min(a, b) == IF a <= b THEN a ELSE b

None == << >>
Some(x) == << x >>
IsSome(o) == Len(o) = 1
Unwrap(o) == o[1]

\* Most completed frames the store is filled with.
MaxFrames == 2

\* What a user can type after `start`: a project name and a list of tags.
StartInputs == {<<"", << >> >>, <<"a", << >> >>, <<"b", <<"y", "", "x">> >>}

VARIABLES
    ongoing_frame,  \* InMemoryStore.ongoing_frame: Option<OngoingFrame>
    frames,         \* InMemoryStore.frames: HashMap<String, CompletedFrame>
    file_frames,    \* the frames file of watson::Store: a JSON array of records
    now,            \* the last reading of the local clock
    result,         \* the last operation and what it returned
    frames_text,    \* the frames file as a disk may hold it: missing, unreadable,
                    \* not JSON, or an array whose records may be malformed
    state_text,     \* the ongoing-state file of watson::Store, likewise
    procs           \* the invocations of save_frame under way: position and loaded list

vars == <<ongoing_frame, frames, file_frames, now, result,
         frames_text, state_text, procs>>

----------------------------------------------------------------------------
(* What a file on disk may be: absent, present but not readable, a text that
   is not JSON, or a JSON text; body is the JSON value of a JSON text. *)
MissingFile == [kind |-> "missing", body |-> << >>]
UnreadableFile == [kind |-> "unreadable", body |-> << >>]
NotJsonFile == [kind |-> "not_json", body |-> << >>]
JsonFile(body) == [kind |-> "json", body |-> body]

----------------------------------------------------------------------------
(* common.rs *)

\* Variant of NonEmptyString_new that wraps every string.
NonEmptyString_new_any(t) == Some(t)

\* NonEmptyString::new: None for the empty string, Some(s) otherwise.
NonEmptyString_new(t) == IF t = "" THEN None ELSE Some(t)

\* The derived Deserialize of NonEmptyString(String): the newtype takes the
\* JSON string as it is; NonEmptyString::new is not called.
NonEmptyString_deserialize(s) == Some(s)

\* Display for NonEmptyString: the wrapped string is written as it is.
NonEmptyString_to_string(n) == n

\* tags.iter().filter_map(|tag| NonEmptyString::new(tag)).collect()
RECURSIVE FilterTags(_)
FilterTags(tags) ==
    IF tags = << >> THEN << >>
    ELSE LET h == NonEmptyString_new(Head(tags))
         IN  (IF IsSome(h) THEN << Unwrap(h) >> ELSE << >>) \o FilterTags(Tail(tags))

----------------------------------------------------------------------------
(* frame.rs *)

\* generate_id: the hex form of a hash of the current time's string form.
generate_id(t) == << "h", t >>

\* Frame built from an ongoing frame: id and last_edit are synthesized from
\* the clock, end is absent.  The constructor reads the clock for the id and
\* then for last_edit; the model gives the two calls the same reading t.
Frame_from(o, t) ==
    [project   |-> o.project,
     id        |-> generate_id(t),
     start     |-> o.start,
     end       |-> None,
     tags      |-> o.tags,
     last_edit |-> t]

\* Variant of CompletedFrame_from_frame that wraps the frame without looking at
\* its end.
CompletedFrame_from_frame_unchecked(frame) == Some(frame)

\* CompletedFrame::from_frame: None when the frame has no end.
CompletedFrame_from_frame(frame) ==
    IF IsSome(frame.end) THEN Some(frame) ELSE None

\* Frame::set_end: sets the end and wraps the frame as completed.
Frame_set_end(frame, end) ==
    Unwrap(CompletedFrame_from_frame([frame EXCEPT !.end = Some(end)]))

\* CompletedFrame::end
CompletedFrame_end(cf) == Unwrap(cf.end)

\* Ord for CompletedFrame: by start, ascending.
CompletedFrame_le(a, b) == a.start <= b.start

\* slice::sort on completed frames: stable, by CompletedFrame's Ord.
RECURSIVE SortInsert(_, _)
SortInsert(sorted, x) ==
    IF sorted = << >> THEN << x >>
    ELSE IF CompletedFrame_le(sorted[Len(sorted)], x) THEN Append(sorted, x)
    ELSE Append(SortInsert(SubSeq(sorted, 1, Len(sorted) - 1), x), sorted[Len(sorted)])

\* Variant of SortFrames that leaves the frames in the order given.
SortFrames_unsorted(s) == s

RECURSIVE SortFrames(_)
SortFrames(s) ==
    IF s = << >> THEN << >>
    ELSE SortInsert(SortFrames(SubSeq(s, 1, Len(s) - 1)), s[Len(s)])

----------------------------------------------------------------------------
(* state.rs *)

\* OngoingFrame::new
OngoingFrame_new(project, start, tags) ==
    [project |-> project, start |-> start, tags |-> tags]

\* StateStoreBackend for InMemoryStore: get / store / clear on the slot.
Backend_get(slot) == slot
Backend_store(slot, state) == Some(state)
\* Variant of Backend_clear that always answers that a frame was there.
Backend_clear_always_true(slot) == [slot |-> None, had_frame |-> TRUE]
Backend_clear(slot) == [slot |-> None, had_frame |-> IsSome(slot)]

\* Variant of get_state_store that hands out an Ongoing handle whatever the
\* backend holds.
get_state_store_always_ongoing(slot) == "Ongoing"

\* get_state_store: the variant is decided by what the backend holds.
get_state_store(slot) ==
    IF IsSome(Backend_get(slot)) THEN "Ongoing" ELSE "Stopped"

\* StateStore<Ongoing>::get_ongoing
StateStore_get_ongoing(slot) == Unwrap(Backend_get(slot))

\* Variant of StateStore_start that builds the frame and never writes it.
StateStore_start_no_store(slot, project, start, tags) ==
    [slot |-> slot, frame |-> OngoingFrame_new(project, start, tags)]

\* StateStore<Stopped>::start: the new slot and the frame handed back.
StateStore_start(slot, project, start, tags) ==
    LET o == OngoingFrame_new(project, start, tags)
    IN  [slot |-> Backend_store(slot, o), frame |-> o]

\* Variant of StateStore_stop that ends the frame at the clock reading, not at `at`.
StateStore_stop_at_now(slot, at, t) ==
    LET frame == Frame_from(StateStore_get_ongoing(slot), t)
    IN  [slot |-> Backend_clear(slot).slot, frame |-> Frame_set_end(frame, t)]

\* StateStore<Ongoing>::stop: the completed frame and the cleared slot.
StateStore_stop(slot, at, t) ==
    LET frame == Frame_from(StateStore_get_ongoing(slot), t)
        completed_frame == Frame_set_end(frame, at)
    IN  [slot |-> Backend_clear(slot).slot, frame |-> completed_frame]

\* Variant of StateStore_cancel that leaves the slot as it is.
StateStore_cancel_keeps(slot) == slot

\* StateStore<Ongoing>::cancel
StateStore_cancel(slot) == Backend_clear(slot).slot

----------------------------------------------------------------------------
(* stores/in_memory_store.rs *)

EmptyMap == [k \in {} |-> 0]

\* HashMap::insert: the entry for key k is v, whether or not k was present.
Insert(m, k, v) == [i \in DOMAIN m \cup {k} |-> IF i = k THEN v ELSE m[i]]

\* The orders in which a HashMap's values may be iterated: any order of its keys.
RECURSIVE Perms(_)
Perms(S) ==
    IF S = {} THEN {<< >>}
    ELSE UNION {{<< x >> \o p : p \in Perms(S \ {x})} : x \in S}

\* frames.values(), in iteration order `order`.
Values(m, order) == [i \in 1..Len(order) |-> m[order[i]]]

\* InMemoryStore::save_frame
InMemoryStore_save_frame(m, frame) == Insert(m, frame.id, frame)

\* Variant of MaxByEnd that compares the frames by their start.
RECURSIVE MaxByEnd_by_start(_)
MaxByEnd_by_start(vals) ==
    IF vals = << >> THEN None
    ELSE LET rest == MaxByEnd_by_start(SubSeq(vals, 1, Len(vals) - 1))
             last == vals[Len(vals)]
         IN  IF IsSome(rest) /\ Unwrap(rest).start > last.start
             THEN rest ELSE Some(last)

\* Iterator::max_by_key(|frame| frame.end()): the last of the maximal elements.
RECURSIVE MaxByEnd(_)
MaxByEnd(vals) ==
    IF vals = << >> THEN None
    ELSE LET rest == MaxByEnd(SubSeq(vals, 1, Len(vals) - 1))
             last == vals[Len(vals)]
         IN  IF IsSome(rest) /\ CompletedFrame_end(Unwrap(rest)) > CompletedFrame_end(last)
             THEN rest ELSE Some(last)

\* InMemoryStore::get_last_frame
InMemoryStore_get_last_frame(m, order) == MaxByEnd(Values(m, order))

\* InMemoryStore::get_frame
InMemoryStore_get_frame(m, frame_id) ==
    IF frame_id \in DOMAIN m THEN Some(m[frame_id]) ELSE None

\* Ord for NonEmptyString is the order of the strings; the names of the model in
\* that order.
Alphabet == <<"a", "b", "x", "y">>
Rank(s) == CHOOSE i \in 1..Len(Alphabet) : Alphabet[i] = s

\* projects.sort()
RECURSIVE SortNamesInsert(_, _)
SortNamesInsert(sorted, x) ==
    IF sorted = << >> THEN << x >>
    ELSE IF Rank(sorted[Len(sorted)]) <= Rank(x) THEN Append(sorted, x)
    ELSE Append(SortNamesInsert(SubSeq(sorted, 1, Len(sorted) - 1), x), sorted[Len(sorted)])

RECURSIVE SortNames(_)
SortNames(s) ==
    IF s = << >> THEN << >>
    ELSE SortNamesInsert(SortNames(SubSeq(s, 1, Len(s) - 1)), s[Len(s)])

\* Vec::dedup: drops an element equal to the one before it.
RECURSIVE Dedup(_)
Dedup(s) ==
    IF Len(s) <= 1 THEN s
    ELSE LET init == Dedup(SubSeq(s, 1, Len(s) - 1))
         IN  IF init[Len(init)] = s[Len(s)] THEN init ELSE Append(init, s[Len(s)])

\* InMemoryStore::get_projects
InMemoryStore_get_projects(m, order) ==
    LET vals == Values(m, order)
        projects == [i \in 1..Len(vals) |-> vals[i].project]
    IN  Dedup(SortNames(projects))

\* Variant of Overlaps that keeps only the frames lying inside [start, end].
Overlaps_contained(frame, start, end) ==
    frame.start >= start /\ CompletedFrame_end(frame) <= end

\* The filter of InMemoryStore::get_frames: the frame overlaps [start, end).
Overlaps(frame, start, end) ==
    frame.start < end /\ CompletedFrame_end(frame) > start

\* InMemoryStore::get_frames
InMemoryStore_get_frames(m, order, start, end) ==
    LET vals == Values(m, order)
        Keep(frame) == Overlaps(frame, start, end)
    IN  SortFrames(SelectSeq(vals, Keep))

----------------------------------------------------------------------------
(* cli.rs: CommandExecutor over the in-memory store *)

\* The clock readings a call of Local::now() may return after reading t.
Later(t) == t..Min(t + 1, MaxTime)

\* Times a user can give with `stop --at`.
AtInputs == 0..(MaxTime + 1)

\* Variant of CommandExecutor_start that takes the start of the last frame.
CommandExecutor_start_from_last_start(project, tags, no_gap, t, order) ==
    LET name == NonEmptyString_new(project)
        tgs == FilterTags(tags)
        last == InMemoryStore_get_last_frame(frames, order)
        start == IF no_gap /\ IsSome(last) THEN Unwrap(last).start ELSE t
    IN  IF ~IsSome(name)
        THEN /\ result' = [cmd |-> "Start", res |-> "InvalidProjectName"]
             /\ UNCHANGED <<ongoing_frame, frames>>
        ELSE LET started == StateStore_start(ongoing_frame, Unwrap(name), start, tgs)
             IN  /\ ongoing_frame' = started.slot
                 /\ result' = [cmd |-> "Start", res |-> "Ok", project |-> Unwrap(name),
                               start |-> start, tags |-> tgs, no_gap |-> no_gap]
                 /\ UNCHANGED frames

\* Variant of CommandExecutor_start that stores the tags as they were typed.
CommandExecutor_start_raw_tags(project, tags, no_gap, t, order) ==
    LET name == NonEmptyString_new(project)
        last == InMemoryStore_get_last_frame(frames, order)
        start == IF no_gap /\ IsSome(last) THEN CompletedFrame_end(Unwrap(last)) ELSE t
    IN  IF ~IsSome(name)
        THEN /\ result' = [cmd |-> "Start", res |-> "InvalidProjectName"]
             /\ UNCHANGED <<ongoing_frame, frames>>
        ELSE LET started == StateStore_start(ongoing_frame, Unwrap(name), start, tags)
             IN  /\ ongoing_frame' = started.slot
                 /\ result' = [cmd |-> "Start", res |-> "Ok", project |-> Unwrap(name),
                               start |-> start, tags |-> tags, no_gap |-> no_gap]
                 /\ UNCHANGED frames

\* CommandExecutor::start, called with the Stopped handle at clock reading t.
CommandExecutor_start(project, tags, no_gap, t, order) ==
    LET name == NonEmptyString_new(project)
        tgs == FilterTags(tags)
        last == InMemoryStore_get_last_frame(frames, order)
        start == IF no_gap /\ IsSome(last) THEN CompletedFrame_end(Unwrap(last)) ELSE t
    IN  IF ~IsSome(name)
        THEN /\ result' = [cmd |-> "Start", res |-> "InvalidProjectName"]
             /\ UNCHANGED <<ongoing_frame, frames>>
        ELSE LET started == StateStore_start(ongoing_frame, Unwrap(name), start, tgs)
             IN  /\ ongoing_frame' = started.slot
                 /\ result' = [cmd |-> "Start", res |-> "Ok", project |-> Unwrap(name),
                               start |-> start, tags |-> tgs, no_gap |-> no_gap]
                 /\ UNCHANGED frames

\* Variant of StartWhileOngoing that reports the requested project.
StartWhileOngoing_requested(project) ==
    /\ result' = [cmd |-> "Start", res |-> "OngoingProject",
                  project |-> project, requested |-> project]
    /\ UNCHANGED <<ongoing_frame, frames>>

\* execute_command, Command::Start with the Ongoing handle.
StartWhileOngoing(project) ==
    /\ result' = [cmd |-> "Start", res |-> "OngoingProject",
                  project |-> StateStore_get_ongoing(ongoing_frame).project,
                  requested |-> project]
    /\ UNCHANGED <<ongoing_frame, frames>>

\* execute_command, Command::Start
Start(project, tags, no_gap) ==
    \E t \in Later(now), order \in Perms(DOMAIN frames) :
        /\ now' = t
        /\ UNCHANGED <<file_frames, frames_text, state_text, procs>>
        /\ IF get_state_store(ongoing_frame) = "Ongoing"
           THEN StartWhileOngoing(project)
           ELSE CommandExecutor_start(project, tags, no_gap, t, order)

\* Variant of NoOngoingRecording that lets the command succeed.
NoOngoingRecording_ok(cmd) ==
    /\ result' = [cmd |-> cmd, res |-> "Ok"]
    /\ UNCHANGED <<ongoing_frame, frames>>

\* execute_command, the Stopped arm of Stop, Cancel and Status.
NoOngoingRecording(cmd) ==
    /\ result' = [cmd |-> cmd, res |-> "NoOngoingRecording"]
    /\ UNCHANGED <<ongoing_frame, frames>>

\* Variant of CommandExecutor_stop that drops the completed frame.
CommandExecutor_stop_no_save(at, explicit, t) ==
    LET stopped == StateStore_stop(ongoing_frame, at, t)
    IN  /\ ongoing_frame' = stopped.slot
        /\ frames' = frames
        /\ result' = [cmd |-> "Stop", res |-> "Ok", at |-> at, explicit |-> explicit,
                      frame |-> stopped.frame]
        /\ now' = t

\* CommandExecutor::stop: stop the state store, then save the completed frame.
CommandExecutor_stop(at, explicit, t) ==
    LET stopped == StateStore_stop(ongoing_frame, at, t)
    IN  /\ ongoing_frame' = stopped.slot
        /\ frames' = InMemoryStore_save_frame(frames, stopped.frame)
        /\ result' = [cmd |-> "Stop", res |-> "Ok", at |-> at, explicit |-> explicit,
                      frame |-> stopped.frame]
        /\ now' = t

\* Variant of IsFutureStopDate that lets a stop time one tick ahead pass.
IsFutureStopDate_slack(stop_datetime, t) == stop_datetime > t + 1

\* The check of Command::Stop: the stop time is later than the clock reading t.
IsFutureStopDate(stop_datetime, t) == stop_datetime > t

\* execute_command, Command::Stop { at }: t1 is the clock reading that stands in
\* for a missing `at`, t2 the reading the stop time is compared with, t3 the
\* reading the completed frame is built at.
Stop(at) ==
    \E t1 \in Later(now) : \E t2 \in Later(t1) : \E t3 \in Later(t2) :
        /\ UNCHANGED <<file_frames, frames_text, state_text, procs>>
        /\ IF get_state_store(ongoing_frame) = "Stopped"
           THEN /\ NoOngoingRecording("Stop")
                /\ now' = t1
           ELSE LET stop_datetime == IF IsSome(at) THEN Unwrap(at) ELSE t1
                IN  IF IsFutureStopDate(stop_datetime, t2)
                    THEN /\ result' = [cmd |-> "Stop", res |-> "FutureStopDate",
                                       at |-> stop_datetime, explicit |-> IsSome(at)]
                         /\ now' = t2
                         /\ UNCHANGED <<ongoing_frame, frames>>
                    ELSE /\ Cardinality(DOMAIN frames) < MaxFrames
                         /\ CommandExecutor_stop(stop_datetime, IsSome(at), t3)

\* execute_command, Command::Cancel
Cancel ==
    \E t \in Later(now) :
        /\ now' = t
        /\ UNCHANGED <<file_frames, frames_text, state_text, procs>>
        /\ IF get_state_store(ongoing_frame) = "Ongoing"
           THEN /\ ongoing_frame' = StateStore_cancel(ongoing_frame)
                /\ UNCHANGED frames
                /\ result' = [cmd |-> "Cancel", res |-> "Ok",
                              project |-> StateStore_get_ongoing(ongoing_frame).project]
           ELSE NoOngoingRecording("Cancel")

\* execute_command, Command::Status, with CommandExecutor::status
Status ==
    \E t1 \in Later(now) : \E t2 \in Later(t1) :
        /\ UNCHANGED <<file_frames, frames_text, state_text, procs>>
        /\ IF get_state_store(ongoing_frame) = "Ongoing"
           THEN LET frame == Frame_from(StateStore_get_ongoing(ongoing_frame), t1)
                    completed_frame == Frame_set_end(frame, t2)
                IN  /\ result' = [cmd |-> "Status", res |-> "Ok",
                                  project |-> completed_frame.project,
                                  start |-> completed_frame.start]
                    /\ now' = t2
                    /\ UNCHANGED <<ongoing_frame, frames>>
           ELSE /\ NoOngoingRecording("Status")
                /\ now' = t1

\* execute_command, Command::Projects, with CommandExecutor::list_projects
Projects ==
    \E t \in Later(now), order \in Perms(DOMAIN frames) :
        /\ now' = t
        /\ result' = [cmd |-> "Projects", res |-> "Ok",
                      printed |-> InMemoryStore_get_projects(frames, order)]
        /\ UNCHANGED <<ongoing_frame, frames, file_frames, frames_text, state_text, procs>>

\* InMemoryStore::new, before the first command.
Init ==
    /\ ongoing_frame = None
    /\ frames = EmptyMap
    /\ file_frames = << >>
    /\ frames_text = MissingFile
    /\ state_text = MissingFile
    /\ procs = << >>
    /\ now = 0
    /\ result = [cmd |-> "new", res |-> "Ok"]

Next ==
    \/ \E input \in StartInputs, no_gap \in BOOLEAN : Start(input[1], input[2], no_gap)
    \/ \E at \in {None} \cup {Some(t) : t \in AtInputs} : Stop(at)
    \/ Cancel
    \/ Status
    \/ Projects

Spec == Init /\ [][Next]_vars

----------------------------------------------------------------------------
(* watson.rs: the file store and its Watson-compatible records *)

\* DateTime::timestamp: whole seconds, the sub-second part dropped.
timestamp(t) == t \div TicksPerSecond

\* Local.timestamp_opt(secs, 0): the DateTime at the start of that second.
timestamp_opt(secs) == secs * TicksPerSecond

\* From<frame::CompletedFrame> for watson::Frame
WatsonFrame_from(completed_frame) ==
    [start_timestamp     |-> timestamp(completed_frame.start),
     end_timestamp       |-> timestamp(CompletedFrame_end(completed_frame)),
     project             |-> completed_frame.project,
     id                  |-> completed_frame.id,
     tags                |-> completed_frame.tags,
     last_edit_timestamp |-> timestamp(completed_frame.last_edit)]

\* From<watson::Frame> for frame::CompletedFrame
CompletedFrame_from_watson(value) ==
    Unwrap(CompletedFrame_from_frame(
        [project   |-> value.project,
         id        |-> value.id,
         start     |-> timestamp_opt(value.start_timestamp),
         end       |-> Some(timestamp_opt(value.end_timestamp)),
         tags      |-> value.tags,
         last_edit |-> timestamp_opt(value.last_edit_timestamp)]))

\* Variant of Frame_serialize that writes the end before the start.
Frame_serialize_end_first(f) ==
    << f.end_timestamp, f.start_timestamp, f.project, f.id, f.tags,
       f.last_edit_timestamp >>

\* Serialize for watson::Frame: the record as a 6-element array.
Frame_serialize(f) ==
    << f.start_timestamp, f.end_timestamp, f.project, f.id, f.tags,
       f.last_edit_timestamp >>

\* Deserialize for watson::Frame: the 6-element array as a record.
Frame_deserialize(seq) ==
    [start_timestamp     |-> seq[1],
     end_timestamp       |-> seq[2],
     project             |-> seq[3],
     id                  |-> seq[4],
     tags                |-> seq[5],
     last_edit_timestamp |-> seq[6]]

\* Store::load: the completed frames of the frames file, in file order (a
\* missing file is the empty list).
Store_load(file) ==
    [i \in 1..Len(file) |-> CompletedFrame_from_watson(Frame_deserialize(file[i]))]

\* Store::save: the frames file written from a list of completed frames.
Store_save(frs) ==
    [i \in 1..Len(frs) |-> Frame_serialize(WatsonFrame_from(frs[i]))]

\* Variant of Store_save_frame that appends without dropping the old entry.
Store_save_frame_no_retain(file, completed_frame) ==
    Store_save(SortFrames(Append(Store_load(file), completed_frame)))

\* Store::save_frame: load, drop the frame with the same id, push, sort, save.
Store_save_frame(file, completed_frame) ==
    LET loaded == Store_load(file)
        Other(f) == f.id # completed_frame.id
        retained == SelectSeq(loaded, Other)
        pushed == Append(retained, completed_frame)
    IN  Store_save(SortFrames(pushed))

\* Store::get_last_frame: the last frame of the loaded list, none for an empty
\* list (a load that fails is answered with none as well).
Store_get_last_frame(file) ==
    LET loaded == Store_load(file)
    IN  IF loaded = << >> THEN None ELSE Some(loaded[Len(loaded)])

\* Store::get_projects: the project of every loaded frame, in file order.
Store_get_projects(file) ==
    LET loaded == Store_load(file)
    IN  [i \in 1..Len(loaded) |-> loaded[i].project]

----------------------------------------------------------------------------
(* The FrameStore operations called directly, on both stores *)

\* Ids of the frames handed to save_frame.
StoreIds == {generate_id(0), generate_id(1)}

\* Project, tags and last_edit of the frames handed to save_frame.
Payloads ==
    {[project |-> "a", tags |-> << >>, last_edit |-> 0],
     [project |-> "b", tags |-> <<"y", "x">>, last_edit |-> MaxTime]}

\* The completed frames handed to save_frame.
FrameInputs ==
    {[project |-> p.project, id |-> i, start |-> s, end |-> Some(e),
      tags |-> p.tags, last_edit |-> p.last_edit] :
        p \in Payloads, i \in StoreIds, s \in Times, e \in Times}

\* FrameStore::save_frame on the in-memory store and on the file store.
SaveFrame(frame) ==
    /\ frames' = InMemoryStore_save_frame(frames, frame)
    /\ file_frames' = Store_save_frame(file_frames, frame)
    /\ UNCHANGED <<frames_text, state_text, procs>>
    /\ result' = [cmd |-> "save_frame", frame |-> frame,
                  existed |-> frame.id \in DOMAIN frames]
    /\ UNCHANGED <<ongoing_frame, now>>

\* FrameStore::get_frames on the in-memory store.
GetFrames(start, end) ==
    \E order \in Perms(DOMAIN frames) :
        /\ result' = [cmd |-> "get_frames", start |-> start, end |-> end,
                      ret |-> InMemoryStore_get_frames(frames, order, start, end)]
        /\ UNCHANGED <<ongoing_frame, frames, file_frames, frames_text, state_text, procs, now>>

\* FrameStore::get_last_frame on the in-memory store.
GetLastFrame ==
    \E order \in Perms(DOMAIN frames) :
        /\ result' = [cmd |-> "get_last_frame",
                      ret |-> InMemoryStore_get_last_frame(frames, order)]
        /\ UNCHANGED <<ongoing_frame, frames, file_frames, frames_text, state_text, procs, now>>

NextStore ==
    \/ \E frame \in FrameInputs : SaveFrame(frame)
    \/ \E start \in AtInputs, end \in AtInputs : GetFrames(start, end)
    \/ GetLastFrame

SpecStore == Init /\ [][NextStore]_vars

\* Sequences of save_frame calls alone.
NextSave == \E frame \in FrameInputs : SaveFrame(frame)

SpecSave == Init /\ [][NextSave]_vars

\* FrameStore::get_last_frame on the file store.
GetLastFrameFile ==
    /\ result' = [cmd |-> "Store_get_last_frame",
                  ret |-> Store_get_last_frame(file_frames)]
    /\ UNCHANGED <<ongoing_frame, frames, file_frames, frames_text, state_text, procs, now>>

\* FrameStore::get_projects on the in-memory store and on the file store.
GetProjects ==
    \E order \in Perms(DOMAIN frames) :
        /\ result' = [cmd |-> "get_projects",
                      mem |-> InMemoryStore_get_projects(frames, order),
                      file |-> Store_get_projects(file_frames)]
        /\ UNCHANGED <<ongoing_frame, frames, file_frames, frames_text, state_text, procs, now>>

\* save_frame calls interleaved with the queries of the file store.
NextQuery ==
    \/ \E frame \in FrameInputs : SaveFrame(frame)
    \/ GetLastFrameFile
    \/ GetProjects

SpecQuery == Init /\ [][NextQuery]_vars

----------------------------------------------------------------------------
(* cli.rs: CommandExecutor over the file store.  The completed frames are   *)
(* those of watson::Store; the ongoing slot follows the StateStoreBackend   *)
(* contract (get, store, clear).                                           *)

\* Largest clock reading in the runs of the executor over the file store.
MaxFileTime == 4

\* Most completed frames the file store is filled with in these runs.
MaxFileFrames == 3

\* The clock readings a call of Local::now() may return after reading t.
LaterFile(t) == t..Min(t + 1, MaxFileTime)

\* What a user can type after `start` and after `stop --at` in these runs.
FileStartInputs == {<<"a", << >> >>}
FileAtInputs == 0..MaxFileTime

\* CommandExecutor::start with T = watson::Store, at clock reading t.
CommandExecutor_start_file(project, tags, no_gap, t) ==
    LET name == NonEmptyString_new(project)
        tgs == FilterTags(tags)
        last == Store_get_last_frame(file_frames)
        start == IF no_gap /\ IsSome(last) THEN CompletedFrame_end(Unwrap(last)) ELSE t
    IN  IF ~IsSome(name)
        THEN /\ result' = [cmd |-> "Start", res |-> "InvalidProjectName"]
             /\ UNCHANGED <<ongoing_frame, file_frames, frames_text, state_text, procs>>
        ELSE LET started == StateStore_start(ongoing_frame, Unwrap(name), start, tgs)
             IN  /\ ongoing_frame' = started.slot
                 /\ result' = [cmd |-> "Start", res |-> "Ok", project |-> Unwrap(name),
                               start |-> start, tags |-> tgs, no_gap |-> no_gap]
                 /\ UNCHANGED <<file_frames, frames_text, state_text, procs>>

\* execute_command, Command::Start, with T = watson::Store
StartFile(project, tags, no_gap) ==
    \E t \in LaterFile(now) :
        /\ now' = t
        /\ IF get_state_store(ongoing_frame) = "Ongoing"
           THEN StartWhileOngoing(project) /\ UNCHANGED <<file_frames, frames_text, state_text, procs>>
           ELSE CommandExecutor_start_file(project, tags, no_gap, t) /\ UNCHANGED frames

\* CommandExecutor::stop with T = watson::Store
CommandExecutor_stop_file(at, explicit, t) ==
    LET stopped == StateStore_stop(ongoing_frame, at, t)
    IN  /\ ongoing_frame' = stopped.slot
        /\ file_frames' = Store_save_frame(file_frames, stopped.frame)
        /\ UNCHANGED <<frames_text, state_text, procs>>
        /\ Len(file_frames') <= MaxFileFrames
        /\ result' = [cmd |-> "Stop", res |-> "Ok", at |-> at, explicit |-> explicit,
                      frame |-> stopped.frame]
        /\ now' = t
        /\ UNCHANGED frames

\* execute_command, Command::Stop { at }, with T = watson::Store
StopFile(at) ==
    \E t1 \in LaterFile(now) : \E t2 \in LaterFile(t1) : \E t3 \in LaterFile(t2) :
        IF get_state_store(ongoing_frame) = "Stopped"
        THEN /\ NoOngoingRecording("Stop")
             /\ now' = t1
             /\ UNCHANGED <<file_frames, frames_text, state_text, procs>>
        ELSE LET stop_datetime == IF IsSome(at) THEN Unwrap(at) ELSE t1
             IN  IF IsFutureStopDate(stop_datetime, t2)
                 THEN /\ result' = [cmd |-> "Stop", res |-> "FutureStopDate",
                                    at |-> stop_datetime, explicit |-> IsSome(at)]
                      /\ now' = t2
                      /\ UNCHANGED <<ongoing_frame, frames, file_frames, frames_text, state_text, procs>>
                 ELSE CommandExecutor_stop_file(stop_datetime, IsSome(at), t3)

\* execute_command, Command::Cancel, with T = watson::Store
CancelFile ==
    \E t \in LaterFile(now) :
        /\ now' = t
        /\ UNCHANGED <<file_frames, frames_text, state_text, procs>>
        /\ IF get_state_store(ongoing_frame) = "Ongoing"
           THEN /\ ongoing_frame' = StateStore_cancel(ongoing_frame)
                /\ UNCHANGED frames
                /\ result' = [cmd |-> "Cancel", res |-> "Ok",
                              project |-> StateStore_get_ongoing(ongoing_frame).project]
           ELSE NoOngoingRecording("Cancel")

NextFile ==
    \/ \E input \in FileStartInputs, no_gap \in BOOLEAN :
           StartFile(input[1], input[2], no_gap)
    \/ \E at \in {None} \cup {Some(t) : t \in FileAtInputs} : StopFile(at)
    \/ CancelFile

SpecFile == Init /\ [][NextFile]_vars

----------------------------------------------------------------------------
(* watson.rs: the file store on a frames file that may be missing, unreadable *)
(* or malformed                                                             *)

\* The JSON array that a record written by Frame_serialize is in the file:
\* len is the number of its elements, and a member is Some(v) when the element
\* at its place is of the JSON type of that member, None when it is not (or
\* when there is no element at that place).
Json_array(seq) ==
    [len |-> 6, start |-> Some(seq[1]), end |-> Some(seq[2]), project |-> Some(seq[3]),
     id |-> Some(seq[4]), tags |-> Some(seq[5]), last_edit |-> Some(seq[6])]

\* Deserialize for watson::Frame on any JSON array: <[Value; 6]>::deserialize
\* wants exactly six elements, as_i64 and as_str want numbers and strings;
\* the derived Deserialize of NonEmptyString takes every string.
Frame_try_deserialize(v) ==
    IF /\ v.len = 6
       /\ IsSome(v.start) /\ IsSome(v.end) /\ IsSome(v.project)
       /\ IsSome(v.id) /\ IsSome(v.tags) /\ IsSome(v.last_edit)
    THEN Some(Frame_deserialize(<< Unwrap(v.start), Unwrap(v.end),
                                   Unwrap(NonEmptyString_deserialize(Unwrap(v.project))),
                                   Unwrap(v.id), Unwrap(v.tags), Unwrap(v.last_edit) >>))
    ELSE None

\* Store::load on the file as the disk holds it: a missing file is the empty
\* list, a failed read is an IoError, and serde_json::from_str::<Vec<Frame>>
\* fails as a whole when the text is not JSON or one element fails.
Store_load_text(text) ==
    IF text.kind = "missing" THEN [res |-> "Ok", frames |-> << >>]
    ELSE IF text.kind = "unreadable" THEN [res |-> "IoError", frames |-> << >>]
    ELSE IF \/ text.kind = "not_json"
            \/ \E i \in 1..Len(text.body) : ~IsSome(Frame_try_deserialize(text.body[i]))
    THEN [res |-> "SerializationError", frames |-> << >>]
    ELSE [res |-> "Ok",
          frames |-> [i \in 1..Len(text.body) |->
                         CompletedFrame_from_watson(
                             Unwrap(Frame_try_deserialize(text.body[i])))]]

\* Store::save: the text written for a list of completed frames.
Store_save_text(frs) ==
    LET file == Store_save(frs)
    IN  JsonFile([i \in 1..Len(file) |-> Json_array(file[i])])

\* Store::get_last_frame: match self.load() { Ok(frames) => frames.last(),
\* Err(_) => None }.  The return type is an Option: there is no error to hand on.
Store_get_last_frame_text(text) ==
    LET loaded == Store_load_text(text)
    IN  IF loaded.res # "Ok" THEN [res |-> "Ok", ret |-> None]
        ELSE IF loaded.frames = << >> THEN [res |-> "Ok", ret |-> None]
        ELSE [res |-> "Ok", ret |-> Some(loaded.frames[Len(loaded.frames)])]

\* Store::get_projects: self.load()? and the project of every frame.
Store_get_projects_text(text) ==
    LET loaded == Store_load_text(text)
    IN  IF loaded.res # "Ok" THEN [res |-> loaded.res, ret |-> << >>]
        ELSE [res |-> "Ok",
              ret |-> [i \in 1..Len(loaded.frames) |-> loaded.frames[i].project]]

\* Store::save_frame: self.load()?, retain, push, sort, save.
Store_save_frame_text(text, completed_frame) ==
    LET loaded == Store_load_text(text)
        Other(f) == f.id # completed_frame.id
        retained == SelectSeq(loaded.frames, Other)
        pushed == Append(retained, completed_frame)
    IN  IF loaded.res # "Ok" THEN [res |-> loaded.res, text |-> text]
        ELSE [res |-> "Ok", text |-> Store_save_text(SortFrames(pushed))]

(* frame.rs: CompletedFrameStore, the loader of the frames file that main.rs *)
(* uses                                                                     *)

\* Value::to_string of a JSON string: the string in double quotes.
Value_to_string(s) == "\"" \o s \o "\""

\* CompletedFrame::from_watson_json on a JSON array, element by element in
\* the order of the code: a `?` on a wrong type is Err, the expect on an
\* empty project name and the index 5 of a shorter array abort the program.
CompletedFrame_from_watson_json(v) ==
    IF ~IsSome(v.start) \/ ~IsSome(v.end) \/ ~IsSome(v.project)
    THEN [res |-> "Err", frame |-> None]
    ELSE IF ~IsSome(NonEmptyString_new(Unwrap(v.project)))
    THEN [res |-> "Panic", frame |-> None]
    ELSE IF ~IsSome(v.id) \/ ~IsSome(v.tags)
    THEN [res |-> "Err", frame |-> None]
    ELSE IF v.len < 6
    THEN [res |-> "Panic", frame |-> None]
    ELSE IF ~IsSome(v.last_edit)
    THEN [res |-> "Err", frame |-> None]
    ELSE [res |-> "Ok",
          frame |-> Some([project   |-> Unwrap(NonEmptyString_new(Unwrap(v.project))),
                          id        |-> Unwrap(v.id),
                          start     |-> timestamp_opt(Unwrap(v.start)),
                          end       |-> Some(timestamp_opt(Unwrap(v.end))),
                          tags      |-> [i \in 1..Len(Unwrap(v.tags)) |->
                                            Value_to_string(Unwrap(v.tags)[i])],
                          last_edit |-> timestamp_opt(Unwrap(v.last_edit))])]

\* CompletedFrameStore::load: read_to_string and from_str are unwrapped, the
\* elements go through filter_map(from_watson_json(..).ok()).
CompletedFrameStore_load(text) ==
    LET parsed == [i \in 1..Len(text.body) |-> CompletedFrame_from_watson_json(text.body[i])]
        IsOk(r) == r.res = "Ok"
        kept == SelectSeq(parsed, IsOk)
    IN  IF text.kind # "json" THEN [res |-> "Panic", frames |-> << >>]
        ELSE IF \E i \in 1..Len(parsed) : parsed[i].res = "Panic"
        THEN [res |-> "Panic", frames |-> << >>]
        ELSE [res |-> "Ok", frames |-> [i \in 1..Len(kept) |-> Unwrap(kept[i].frame)]]

----------------------------------------------------------------------------
(* The file store and the commands over it, on the frames files a disk may  *)
(* hold                                                                     *)

\* Two records as save_frame writes them.
GoodRecords ==
    {Json_array(Frame_serialize(WatsonFrame_from(
        [project |-> "a", id |-> generate_id(0), start |-> 0,
         end |-> Some(timestamp_opt(1)), tags |-> << >>, last_edit |-> 0]))),
     Json_array(Frame_serialize(WatsonFrame_from(
        [project |-> "b", id |-> generate_id(1), start |-> timestamp_opt(1),
         end |-> Some(timestamp_opt(1)), tags |-> <<"y", "x">>, last_edit |-> MaxTime])))}

\* Records that fail to parse: five elements instead of six, a string where
\* the start is expected, and an empty project name.
ShortRecord ==
    [len |-> 5, start |-> Some(0), end |-> Some(1), project |-> Some("a"),
     id |-> Some(generate_id(0)), tags |-> Some(<< >>), last_edit |-> None]
WrongTypeRecord ==
    [len |-> 6, start |-> None, end |-> Some(1), project |-> Some("a"),
     id |-> Some(generate_id(0)), tags |-> Some(<< >>), last_edit |-> Some(0)]
EmptyProjectRecord ==
    [len |-> 6, start |-> Some(0), end |-> Some(1), project |-> Some(""),
     id |-> Some(generate_id(0)), tags |-> Some(<< >>), last_edit |-> Some(0)]
BadRecords == {ShortRecord, WrongTypeRecord, EmptyProjectRecord}

\* Most records of a frames file found on the disk.
MaxRecords == 2

\* The frames files found on the disk.
RECURSIVE SeqsUpTo(_, _)
SeqsUpTo(S, n) ==
    IF n = 0 THEN {<< >>}
    ELSE SeqsUpTo(S, n - 1) \cup
         {Append(s, x) : s \in {q \in SeqsUpTo(S, n - 1) : Len(q) = n - 1}, x \in S}
FramesTexts ==
    {MissingFile, UnreadableFile, NotJsonFile} \cup
    {JsonFile(b) : b \in SeqsUpTo(GoodRecords \cup BadRecords, MaxRecords)}

\* The frames handed to save_frame in these runs.
TextFrameInputs ==
    {[project |-> "b", id |-> generate_id(1), start |-> 0,
      end |-> Some(MaxTime), tags |-> <<"x">>, last_edit |-> MaxTime]}

InitText ==
    /\ ongoing_frame = None
    /\ frames = EmptyMap
    /\ file_frames = << >>
    /\ frames_text \in FramesTexts
    /\ state_text = MissingFile
    /\ procs = << >>
    /\ now = 0
    /\ result = [cmd |-> "new", res |-> "Ok"]

\* Store::load
LoadText ==
    /\ result' = [cmd |-> "Store_load", text |-> frames_text,
                  res |-> Store_load_text(frames_text).res,
                  ret |-> Store_load_text(frames_text).frames]
    /\ UNCHANGED <<ongoing_frame, frames, file_frames, frames_text, state_text, procs, now>>

\* CompletedFrameStore::load
LoadOld ==
    /\ result' = [cmd |-> "CompletedFrameStore_load", text |-> frames_text,
                  res |-> CompletedFrameStore_load(frames_text).res,
                  ret |-> CompletedFrameStore_load(frames_text).frames]
    /\ UNCHANGED <<ongoing_frame, frames, file_frames, frames_text, state_text, procs, now>>

\* FrameStore::get_last_frame of watson::Store
GetLastFrameText ==
    /\ result' = [cmd |-> "get_last_frame", text |-> frames_text,
                  res |-> Store_get_last_frame_text(frames_text).res,
                  ret |-> Store_get_last_frame_text(frames_text).ret]
    /\ UNCHANGED <<ongoing_frame, frames, file_frames, frames_text, state_text, procs, now>>

\* FrameStore::get_projects of watson::Store
GetProjectsText ==
    /\ result' = [cmd |-> "get_projects", text |-> frames_text,
                  res |-> Store_get_projects_text(frames_text).res,
                  ret |-> Store_get_projects_text(frames_text).ret]
    /\ UNCHANGED <<ongoing_frame, frames, file_frames, frames_text, state_text, procs, now>>

\* FrameStore::save_frame of watson::Store
SaveFrameText(frame) ==
    LET saved == Store_save_frame_text(frames_text, frame)
    IN  /\ frames_text' = saved.text
        /\ result' = [cmd |-> "save_frame", text |-> frames_text,
                      res |-> saved.res, ret |-> frame]
        /\ UNCHANGED <<ongoing_frame, frames, file_frames, state_text, procs, now>>

\* CommandExecutor::start with T = watson::Store, at clock reading t, on the
\* frames file as the disk holds it.
CommandExecutor_start_text(project, tags, no_gap, t) ==
    LET name == NonEmptyString_new(project)
        tgs == FilterTags(tags)
        last == IF no_gap THEN Store_get_last_frame_text(frames_text).ret ELSE None
        start == IF IsSome(last) THEN CompletedFrame_end(Unwrap(last)) ELSE t
    IN  IF ~IsSome(name)
        THEN /\ result' = [cmd |-> "Start", text |-> frames_text,
                           res |-> "InvalidProjectName"]
             /\ UNCHANGED ongoing_frame
        ELSE LET started == StateStore_start(ongoing_frame, Unwrap(name), start, tgs)
             IN  /\ ongoing_frame' = started.slot
                 /\ result' = [cmd |-> "Start", text |-> frames_text, res |-> "Ok",
                               project |-> Unwrap(name), start |-> start, tags |-> tgs,
                               no_gap |-> no_gap, at |-> t]

\* execute_command, Command::Start, with T = watson::Store
StartText(project, tags, no_gap) ==
    \E t \in Later(now) :
        /\ now' = t
        /\ UNCHANGED <<frames, file_frames, frames_text, state_text, procs>>
        /\ IF get_state_store(ongoing_frame) = "Ongoing"
           THEN /\ result' = [cmd |-> "Start", text |-> frames_text,
                              res |-> "OngoingProject"]
                /\ UNCHANGED ongoing_frame
           ELSE CommandExecutor_start_text(project, tags, no_gap, t)

\* execute_command, Command::Cancel, with T = watson::Store
CancelText ==
    \E t \in Later(now) :
        /\ now' = t
        /\ UNCHANGED <<frames, file_frames, frames_text, state_text, procs>>
        /\ IF get_state_store(ongoing_frame) = "Ongoing"
           THEN /\ ongoing_frame' = StateStore_cancel(ongoing_frame)
                /\ result' = [cmd |-> "Cancel", text |-> frames_text, res |-> "Ok"]
           ELSE /\ result' = [cmd |-> "Cancel", text |-> frames_text,
                              res |-> "NoOngoingRecording"]
                /\ UNCHANGED ongoing_frame

\* CommandExecutor::stop with T = watson::Store, at clock reading t:
\* state_store.stop(at) clears the slot, then store.save_frame writes the
\* frames file; an error of save_frame is returned as FrameStoreError.
CommandExecutor_stop_text(at, t) ==
    LET stopped == StateStore_stop(ongoing_frame, at, t)
        saved == Store_save_frame_text(frames_text, stopped.frame)
    IN  /\ ongoing_frame' = stopped.slot
        /\ frames_text' = saved.text
        /\ result' = [cmd |-> "Stop", text |-> frames_text,
                      res |-> IF saved.res = "Ok" THEN "Ok" ELSE "FrameStoreError",
                      cause |-> saved.res, frame |-> stopped.frame,
                      slot |-> ongoing_frame]
        /\ now' = t

\* execute_command, Command::Stop { at }, with T = watson::Store
StopText(at) ==
    \E t1 \in Later(now) : \E t2 \in Later(t1) : \E t3 \in Later(t2) :
        /\ UNCHANGED <<frames, file_frames, state_text, procs>>
        /\ IF get_state_store(ongoing_frame) = "Stopped"
           THEN /\ result' = [cmd |-> "Stop", text |-> frames_text,
                              res |-> "NoOngoingRecording"]
                /\ now' = t1
                /\ UNCHANGED <<ongoing_frame, frames_text>>
           ELSE LET stop_datetime == IF IsSome(at) THEN Unwrap(at) ELSE t1
                IN  IF IsFutureStopDate(stop_datetime, t2)
                    THEN /\ result' = [cmd |-> "Stop", text |-> frames_text,
                                       res |-> "FutureStopDate"]
                         /\ now' = t2
                         /\ UNCHANGED <<ongoing_frame, frames_text>>
                    ELSE CommandExecutor_stop_text(stop_datetime, t3)

NextText ==
    \/ LoadText
    \/ LoadOld
    \/ GetLastFrameText
    \/ GetProjectsText
    \/ \E frame \in TextFrameInputs : SaveFrameText(frame)
    \/ \E no_gap \in BOOLEAN : StartText("a", << >>, no_gap)
    \/ CancelText
    \/ \E at \in {None} \cup {Some(a) : a \in AtInputs} : StopText(at)

SpecText == InitText /\ [][NextText]_vars

----------------------------------------------------------------------------

(* watson.rs: State, the ongoing-state file of watson::Store *)

\* The JSON object of a state file: a member is Some(v) when the object has
\* it with a value of its JSON type, None when it has not.
State_object(project, start, tags) ==
    [project |-> project, start |-> start, tags |-> tags]

\* The object "{}".
EmptyObject == State_object(None, None, None)

\* State::from(frame): the start is kept in whole seconds.
State_from(frame) ==
    [project |-> frame.project, start |-> timestamp(frame.start), tags |-> frame.tags]

\* State::save: the file is created and the object written to it.
State_save(state) ==
    JsonFile(State_object(Some(state.project), Some(state.start), Some(state.tags)))

\* Variant of State_load for which absent members have default values.
State_load_defaults(text) ==
    IF text.kind # "json" THEN None
    ELSE Some([project |-> IF IsSome(text.body.project)
                           THEN Unwrap(text.body.project) ELSE "",
               start   |-> IF IsSome(text.body.start) THEN Unwrap(text.body.start) ELSE 0,
               tags    |-> IF IsSome(text.body.tags) THEN Unwrap(text.body.tags) ELSE << >>])

\* State::load: None when the file cannot be opened or read, and when
\* serde_json::from_str::<State> fails; project, start and tags are required.
State_load(text) ==
    IF /\ text.kind = "json"
       /\ IsSome(text.body.project) /\ IsSome(text.body.start) /\ IsSome(text.body.tags)
    THEN Some([project |-> Unwrap(NonEmptyString_deserialize(Unwrap(text.body.project))),
               start   |-> Unwrap(text.body.start),
               tags    |-> Unwrap(text.body.tags)])
    ELSE None

\* Frame::from(state) at clock reading t.
Frame_from_state(state, t) ==
    [project   |-> state.project,
     id        |-> generate_id(t),
     start     |-> timestamp_opt(state.start),
     end       |-> None,
     tags      |-> state.tags,
     last_edit |-> t]

\* Store::get_ongoing_frame at clock reading t
Store_get_ongoing_frame(text, t) ==
    LET state == State_load(text)
    IN  IF IsSome(state) THEN Some(Frame_from_state(Unwrap(state), t)) ELSE None

\* FrameStore::has_ongoing_frame: whether get_ongoing_frame answers a frame.
Store_has_ongoing_frame(text, t) == IsSome(Store_get_ongoing_frame(text, t))

\* Store::save_ongoing_frame at clock reading t
Store_save_ongoing_frame(text, frame, t) ==
    IF Store_has_ongoing_frame(text, t)
    THEN [res |-> "OngoingFrameError", text |-> text]
    ELSE [res |-> "Ok", text |-> State_save(State_from(frame))]

\* Store::clear_ongoing_frame: the file is created anew and "{}" written.
Store_clear_ongoing_frame(text) == [res |-> "Ok", text |-> JsonFile(EmptyObject)]

\* The state files found on the disk: none, one that cannot be read, one that
\* is not JSON, "{}", an object without its start, and objects as State::save
\* writes them.
StateTexts ==
    {MissingFile, UnreadableFile, NotJsonFile, JsonFile(EmptyObject),
     JsonFile(State_object(Some("a"), None, Some(<< >>))),
     JsonFile(State_object(Some("a"), Some(0), Some(<< >>))),
     JsonFile(State_object(Some("b"), Some(1), Some(<<"x">>)))}

\* The frames handed to save_ongoing_frame.
OngoingInputs ==
    {[project |-> p, id |-> generate_id(s), start |-> s, end |-> None,
      tags |-> <<"y">>, last_edit |-> s] : p \in {"a", "b"}, s \in Times}

InitState ==
    /\ ongoing_frame = None
    /\ frames = EmptyMap
    /\ file_frames = << >>
    /\ frames_text = MissingFile
    /\ state_text \in StateTexts
    /\ procs = << >>
    /\ now = 0
    /\ result = [cmd |-> "new", res |-> "Ok"]

\* FrameStore::get_ongoing_frame of watson::Store
GetOngoingFrame ==
    \E t \in Later(now) :
        /\ now' = t
        /\ result' = [cmd |-> "get_ongoing_frame", text |-> state_text, res |-> "Ok",
                      ret |-> Store_get_ongoing_frame(state_text, t)]
        /\ UNCHANGED <<ongoing_frame, frames, file_frames, frames_text, state_text, procs>>

\* FrameStore::save_ongoing_frame of watson::Store
SaveOngoingFrame(frame) ==
    \E t \in Later(now) :
        LET saved == Store_save_ongoing_frame(state_text, frame, t)
        IN  /\ now' = t
            /\ state_text' = saved.text
            /\ result' = [cmd |-> "save_ongoing_frame", text |-> state_text,
                          res |-> saved.res, ret |-> frame]
            /\ UNCHANGED <<ongoing_frame, frames, file_frames, frames_text, procs>>

\* FrameStore::clear_ongoing_frame of watson::Store
ClearOngoingFrame ==
    LET cleared == Store_clear_ongoing_frame(state_text)
    IN  /\ state_text' = cleared.text
        /\ result' = [cmd |-> "clear_ongoing_frame", text |-> state_text,
                      res |-> cleared.res]
        /\ UNCHANGED <<ongoing_frame, frames, file_frames, frames_text, procs, now>>

NextState ==
    \/ GetOngoingFrame
    \/ \E frame \in OngoingInputs : SaveOngoingFrame(frame)
    \/ ClearOngoingFrame

SpecState == InitState /\ [][NextState]_vars

----------------------------------------------------------------------------

(* watson.rs: a completed frame written as a Watson record and read back *)

\* The completed frames that are encoded: tags in an order that is not the
\* sorted one and with a tag that occurs twice.
CodecFrames ==
    {[project |-> p, id |-> i, start |-> s, end |-> Some(e), tags |-> tg,
      last_edit |-> le] :
        p \in {"a", "b"}, i \in StoreIds, s \in Times, e \in Times,
        tg \in {<< >>, <<"y", "x", "y">>}, le \in Times}

\* A completed frame has been built; nothing has been called on it yet.
InitCodec ==
    /\ ongoing_frame = None
    /\ frames = EmptyMap
    /\ file_frames = << >>
    /\ frames_text = MissingFile
    /\ state_text = MissingFile
    /\ procs = << >>
    /\ now = 0
    /\ result \in {[cmd |-> "CompletedFrame", frame |-> f] : f \in CodecFrames}

\* watson::Frame::from(completed_frame) and its serialization
Encode ==
    /\ result.cmd = "CompletedFrame"
    /\ result' = [cmd |-> "encode", frame |-> result.frame,
                  record |-> Frame_serialize(WatsonFrame_from(result.frame))]
    /\ UNCHANGED <<ongoing_frame, frames, file_frames, frames_text, state_text, procs, now>>

\* The deserialization of the record and CompletedFrame::from(watson::Frame)
Decode ==
    /\ result.cmd = "encode"
    /\ result' = [cmd |-> "decode", frame |-> result.frame, record |-> result.record,
                  ret |-> CompletedFrame_from_watson(
                              Unwrap(Frame_try_deserialize(Json_array(result.record))))]
    /\ UNCHANGED <<ongoing_frame, frames, file_frames, frames_text, state_text, procs, now>>

NextCodec ==
    \/ Encode
    \/ Decode

SpecCodec == InitCodec /\ [][NextCodec]_vars

----------------------------------------------------------------------------

(* common.rs: NonEmptyString built from given strings *)

\* The strings handed to NonEmptyString: the empty one, names, and a blank.
NameInputs == {"", "a", "b", "x", " "}

\* Most tags of a tag list handed to the filter of Start.
MaxTags == 3

\* Nothing has been built yet.
InitNames ==
    /\ ongoing_frame = None
    /\ frames = EmptyMap
    /\ file_frames = << >>
    /\ frames_text = MissingFile
    /\ state_text = MissingFile
    /\ procs = << >>
    /\ now = 0
    /\ result = [cmd |-> "new", res |-> "Ok"]

\* NonEmptyString::new(s)
NewName(s) ==
    /\ result' = [cmd |-> "NonEmptyString_new", arg |-> s, ret |-> NonEmptyString_new(s)]
    /\ UNCHANGED <<ongoing_frame, frames, file_frames, frames_text, state_text, procs, now>>

\* serde_json::from_value::<NonEmptyString> on the JSON string s
DeserializeName(s) ==
    /\ result' = [cmd |-> "NonEmptyString_deserialize", arg |-> s,
                  ret |-> NonEmptyString_deserialize(s)]
    /\ UNCHANGED <<ongoing_frame, frames, file_frames, frames_text, state_text, procs, now>>

\* tags.iter().filter_map(|tag| NonEmptyString::new(tag)).collect()
FilterTagList(tags) ==
    /\ result' = [cmd |-> "filter_map", arg |-> tags, ret |-> FilterTags(tags)]
    /\ UNCHANGED <<ongoing_frame, frames, file_frames, frames_text, state_text, procs, now>>

NextNames ==
    \/ \E s \in NameInputs : NewName(s)
    \/ \E s \in NameInputs : DeserializeName(s)
    \/ \E tags \in SeqsUpTo(NameInputs, MaxTags) : FilterTagList(tags)

SpecNames == InitNames /\ [][NextNames]_vars

----------------------------------------------------------------------------

(* stores/in_memory_store.rs: the StateStoreBackend operations called       *)
(* directly                                                                 *)

\* The ongoing frames handed to store.
BackendInputs ==
    {OngoingFrame_new(p, s, tg) : p \in {"a", "b"}, s \in Times, tg \in {<< >>, <<"x">>}}

\* InMemoryStore::new: the slot is empty.  `prev` is the operation called
\* before the last one, and what it returned.
InitBackend ==
    /\ ongoing_frame = None
    /\ frames = EmptyMap
    /\ file_frames = << >>
    /\ frames_text = MissingFile
    /\ state_text = MissingFile
    /\ procs = << >>
    /\ now = 0
    /\ result = [cmd |-> "new", ret |-> None, prev |-> <<"none", None>>]

\* StateStoreBackend::get
BackendGet ==
    /\ result' = [cmd |-> "get", ret |-> Backend_get(ongoing_frame),
                  prev |-> <<result.cmd, result.ret>>]
    /\ UNCHANGED <<ongoing_frame, frames, file_frames, frames_text, state_text, procs, now>>

\* StateStoreBackend::store
BackendStore(state) ==
    /\ ongoing_frame' = Backend_store(ongoing_frame, state)
    /\ result' = [cmd |-> "store", ret |-> Some(state),
                  prev |-> <<result.cmd, result.ret>>]
    /\ UNCHANGED <<frames, file_frames, frames_text, state_text, procs, now>>

\* StateStoreBackend::clear
BackendClear ==
    /\ ongoing_frame' = Backend_clear(ongoing_frame).slot
    /\ result' = [cmd |-> "clear", ret |-> Backend_clear(ongoing_frame).had_frame,
                  prev |-> <<result.cmd, result.ret>>]
    /\ UNCHANGED <<frames, file_frames, frames_text, state_text, procs, now>>

NextBackend ==
    \/ BackendGet
    \/ \E state \in BackendInputs : BackendStore(state)
    \/ BackendClear

SpecBackend == InitBackend /\ [][NextBackend]_vars

----------------------------------------------------------------------------

(* watson.rs: save_frame of the file store run by two invocations of the    *)
(* program on the same frames file.  An invocation reads the file in one    *)
(* step (Store::load) and writes it in a later one (Store::save); nothing   *)
(* locks the file in between.                                               *)

\* The invocations.
Procs == {1, 2}

\* The part of Store::save_frame after the load: retain, push, sort, and the
\* text handed to Store::save.
Store_save_frame_loaded(loaded, completed_frame) ==
    LET Other(f) == f.id # completed_frame.id
    IN  Store_save(SortFrames(Append(SelectSeq(loaded, Other), completed_frame)))

\* The frames the invocation with the given id saves.
RaceFrames(id) ==
    {[project |-> "a", id |-> id, start |-> s, end |-> Some(e), tags |-> << >>,
      last_edit |-> e] : s \in Times, e \in Times}

\* The frames file the invocations find: none, or one with a frame in it.
RaceFiles ==
    {<< >>,
     Store_save_frame(<< >>, [project |-> "b", id |-> generate_id(MaxTime + 1), start |-> 0,
                              end |-> Some(0), tags |-> << >>, last_edit |-> 0])}

\* Two invocations are about to save frames of different ids.
InitRace ==
    /\ ongoing_frame = None
    /\ frames = EmptyMap
    /\ file_frames \in RaceFiles
    /\ frames_text = MissingFile
    /\ state_text = MissingFile
    /\ \E f1 \in RaceFrames(generate_id(0)), f2 \in RaceFrames(generate_id(1)) :
          procs = [p \in Procs |->
                      [pc |-> "load", frame |-> IF p = 1 THEN f1 ELSE f2,
                       loaded |-> << >>, res |-> "none"]]
    /\ now = 0
    /\ result = [cmd |-> "new", res |-> "Ok"]

\* Store::save_frame, `let mut frames = self.load()?`
ProcLoad(p) ==
    /\ procs[p].pc = "load"
    /\ procs' = [procs EXCEPT ![p].pc = "write", ![p].loaded = Store_load(file_frames)]
    /\ result' = [cmd |-> "save_frame_load", proc |-> p]
    /\ UNCHANGED <<ongoing_frame, frames, file_frames, frames_text, state_text, now>>

\* Variant of ProcWrite that reads the file again in the step that writes it.
ProcWrite_reloading(p) ==
    /\ procs[p].pc = "write"
    /\ file_frames' = Store_save_frame(file_frames, procs[p].frame)
    /\ procs' = [procs EXCEPT ![p].pc = "done", ![p].res = "Ok"]
    /\ result' = [cmd |-> "save_frame_write", proc |-> p]
    /\ UNCHANGED <<ongoing_frame, frames, frames_text, state_text, now>>

\* Store::save_frame from retain to `self.save(frames)`: the whole file is
\* written from the list this invocation loaded.
ProcWrite(p) ==
    /\ procs[p].pc = "write"
    /\ file_frames' = Store_save_frame_loaded(procs[p].loaded, procs[p].frame)
    /\ procs' = [procs EXCEPT ![p].pc = "done", ![p].res = "Ok"]
    /\ result' = [cmd |-> "save_frame_write", proc |-> p]
    /\ UNCHANGED <<ongoing_frame, frames, frames_text, state_text, now>>

NextRace ==
    \/ \E p \in Procs : ProcLoad(p)
    \/ \E p \in Procs : ProcWrite(p)

SpecRace == InitRace /\ [][NextRace]_vars

----------------------------------------------------------------------------

(* cli.rs / state.rs: execute_command call by call.  Each invocation of the
   program is a process that runs one command; `procs` holds, per process,
   the handle get_state_store gave it and the call it is about to make. *)

\* The commands a process may be invoked with: Start, Stop without --at,
\* Cancel, Status, and Log without and with --current.
ProcCommands == {"Start", "Stop", "Cancel", "Status", "Log", "LogCurrent"}

\* The project a process starts: one per process, to tell the writes apart.
ProcProject(p) == IF p = 1 THEN "a" ELSE "b"

IdleProc == [pc |-> "idle", cmd |-> "none", handle |-> "none", frame |-> None,
             res |-> "none"]

\* execute_command, first lines: get_state_store reads the backend, then the
\* match on (command, variant) picks the arm.
CommandExecutor_dispatch(cmd, handle) ==
    IF cmd = "Log" \/ (cmd = "LogCurrent" /\ handle = "Stopped")
    THEN [pc |-> "idle", res |-> "Ok"]
    ELSE IF handle = "Ongoing"
    THEN [pc |-> "get_ongoing", res |-> "none"]
    ELSE IF cmd = "Start"
         THEN [pc |-> "start", res |-> "none"]
         ELSE [pc |-> "idle", res |-> "NoOngoingRecording"]

ProcBegin(p, cmd) ==
    /\ procs[p].pc = "idle"
    /\ \E t \in Later(now) :
         LET handle == get_state_store(ongoing_frame)
             arm == CommandExecutor_dispatch(cmd, handle)
         IN  /\ now' = t
             /\ procs' = [procs EXCEPT ![p] =
                    [pc |-> arm.pc, cmd |-> cmd, handle |-> handle,
                     frame |-> None, res |-> arm.res]]
             /\ result' = [cmd |-> "get_state_store", proc |-> p,
                           command |-> cmd, res |-> arm.res, slot |-> ongoing_frame]
    /\ UNCHANGED <<ongoing_frame, frames, file_frames, frames_text, state_text>>

\* StateStore<Ongoing>::get_ongoing: backend.get()?.expect(..) panics on an
\* empty slot; "Panic" ends the process.
StateStore_try_get_ongoing(slot) ==
    IF IsSome(Backend_get(slot))
    THEN [res |-> "Ok", frame |-> Backend_get(slot)]
    ELSE [res |-> "Panic", frame |-> None]

\* The get_ongoing call of each Ongoing arm: Start reports the running
\* project, Status and Log --current print it, Stop (inside StateStore::stop)
\* and Cancel go on to clear the slot.
ProcGetOngoing(p) ==
    /\ procs[p].pc = "get_ongoing"
    /\ LET got == StateStore_try_get_ongoing(ongoing_frame)
           cmd == procs[p].cmd
           res == IF got.res = "Panic" THEN "Panic"
                  ELSE IF cmd = "Start" THEN "OngoingProject"
                  ELSE IF cmd \in {"Status", "LogCurrent"} THEN "Ok"
                  ELSE "none"
           pc  == IF res = "none" THEN "clear" ELSE "idle"
           frame == IF got.res = "Ok" /\ cmd = "Stop"
                    THEN Some(Frame_set_end(Frame_from(Unwrap(got.frame), now), now))
                    ELSE None
       IN  /\ procs' = [procs EXCEPT ![p] =
                  [@ EXCEPT !.pc = pc, !.res = res, !.frame = frame]]
           /\ result' = [cmd |-> "get_ongoing", proc |-> p, command |-> cmd,
                         res |-> res, slot |-> ongoing_frame]
    /\ UNCHANGED <<ongoing_frame, frames, file_frames, now, frames_text, state_text>>

\* backend.clear() of StateStore::stop and StateStore::cancel.
ProcClear(p) ==
    /\ procs[p].pc = "clear"
    /\ ongoing_frame' = Backend_clear(ongoing_frame).slot
    /\ LET cmd == procs[p].cmd
           res == IF cmd = "Cancel" THEN "Ok" ELSE "none"
       IN  /\ procs' = [procs EXCEPT ![p] =
                  [@ EXCEPT !.pc = IF cmd = "Stop" THEN "save_frame" ELSE "idle",
                            !.res = res]]
           /\ result' = [cmd |-> "clear", proc |-> p, command |-> cmd,
                         res |-> res, slot |-> ongoing_frame]
    /\ UNCHANGED <<frames, file_frames, now, frames_text, state_text>>

\* CommandExecutor::stop, after state_store.stop: store.save_frame.
ProcSaveFrame(p) ==
    /\ procs[p].pc = "save_frame"
    /\ frames' = InMemoryStore_save_frame(frames, Unwrap(procs[p].frame))
    /\ procs' = [procs EXCEPT ![p] = [@ EXCEPT !.pc = "idle", !.res = "Ok"]]
    /\ result' = [cmd |-> "save_frame", proc |-> p, command |-> "Stop",
                  res |-> "Ok", slot |-> ongoing_frame]
    /\ UNCHANGED <<ongoing_frame, file_frames, now, frames_text, state_text>>

\* Variant of ProcStart that writes only into a slot that is still empty.
ProcStart_checking(p) ==
    /\ procs[p].pc = "start"
    /\ ongoing_frame' = IF IsSome(ongoing_frame) THEN ongoing_frame
                        ELSE StateStore_start(ongoing_frame, ProcProject(p), now, << >>).slot
    /\ procs' = [procs EXCEPT ![p] =
           [@ EXCEPT !.pc = "idle",
                     !.res = IF IsSome(ongoing_frame) THEN "OngoingProject" ELSE "Ok"]]
    /\ result' = [cmd |-> "start", proc |-> p, command |-> "Start",
                  res |-> procs'[p].res, slot |-> ongoing_frame]
    /\ UNCHANGED <<frames, file_frames, now, frames_text, state_text>>

\* CommandExecutor::start on a Stopped handle: StateStore::start writes the
\* new frame into the backend without reading it again.
ProcStart(p) ==
    /\ procs[p].pc = "start"
    /\ ongoing_frame' = StateStore_start(ongoing_frame, ProcProject(p), now, << >>).slot
    /\ procs' = [procs EXCEPT ![p] = [@ EXCEPT !.pc = "idle", !.res = "Ok"]]
    /\ result' = [cmd |-> "start", proc |-> p, command |-> "Start",
                  res |-> "Ok", slot |-> ongoing_frame]
    /\ UNCHANGED <<frames, file_frames, now, frames_text, state_text>>

ProcStep(p) ==
    \/ \E cmd \in ProcCommands : ProcBegin(p, cmd)
    \/ ProcGetOngoing(p)
    \/ ProcClear(p)
    \/ ProcSaveFrame(p)
    \/ ProcStart(p)

InitProc(ps) ==
    /\ ongoing_frame = None
    /\ frames = << >>
    /\ file_frames = << >>
    /\ now = 0
    /\ result = [cmd |-> "none", proc |-> 0, command |-> "none", res |-> "none",
                 slot |-> None]
    /\ frames_text = MissingFile
    /\ state_text = MissingFile
    /\ procs = [p \in ps |-> IdleProc]

\* One process at a time: each invocation runs to its end before the next.
InitSingle == InitProc({1})
NextSingle == ProcStep(1)
SpecSingle == InitSingle /\ [][NextSingle]_vars

\* Two invocations running side by side on the same backend.
InitPair == InitProc(Procs)
NextPair == \E p \in Procs : ProcStep(p)
SpecPair == InitPair /\ [][NextPair]_vars

----------------------------------------------------------------------------

(* log.rs: FrameLog, and the Log command of cli.rs *)

\* Ticks per local day.
TicksPerDay == 2

\* The local date of an instant; the local timezone is one without clock
\* changes, so every day has TicksPerDay ticks and begins at its midnight.
DayOf(t) == t \div TicksPerDay

\* Variant of DateTime_with_time_midnight that keeps the instant as it is.
DateTime_with_time_midnight_keep(t) == Some(t)

\* DateTime<Local>::with_time(00:00:00): the instant of midnight on the date
\* of t, as a LocalResult with None for LocalResult::None; in a timezone
\* without clock changes the result is always a single instant.
DateTime_with_time_midnight(t) == Some(DayOf(t) * TicksPerDay)

\* FrameLog::grouped_by_day: the frames are visited in order; each one is
\* pushed, by reference (here: its position in the slice), to the entry of
\* the key start().with_time(midnight).unwrap(), which panics on None.
RECURSIVE GroupFrom(_, _, _)
GroupFrom(fs, i, map) ==
    IF i > Len(fs) THEN [res |-> "Ok", map |-> map]
    ELSE LET key == DateTime_with_time_midnight(fs[i].start)
         IN  IF ~IsSome(key) THEN [res |-> "Panic", map |-> map]
             ELSE LET k == Unwrap(key)
                      entry == IF k \in DOMAIN map THEN map[k] ELSE << >>
                  IN  GroupFrom(fs, i + 1, Insert(map, k, Append(entry, i)))

FrameLog_grouped_by_day(fs) == GroupFrom(fs, 1, EmptyMap)

\* days.sort_by(|a, b| b.cmp(a)): the keys, latest day first.
RECURSIVE SortDescending(_)
SortDescending(S) ==
    IF S = {} THEN << >>
    ELSE LET m == CHOOSE x \in S : \A y \in S : y <= x
         IN  << m >> \o SortDescending(S \ {m})

\* Display for FrameLog: per day, latest first, the frames of the day.
FrameLog_fmt(fs) ==
    LET grouped == FrameLog_grouped_by_day(fs)
        days == SortDescending(DOMAIN grouped.map)
    IN  IF grouped.res # "Ok" THEN [res |-> "Panic", printed |-> << >>]
        ELSE [res |-> "Ok",
              printed |-> [d \in 1..Len(days) |->
                             [day |-> days[d],
                              frames |-> [j \in 1..Len(grouped.map[days[d]]) |->
                                            fs[grouped.map[days[d]][j]]]]]]

\* The --from and --to values of the Log command.
LogRangeInputs == {None, Some(1)}

\* Variant of Log that saves the frame built for --current.
Log_saving_current(current, from, to) ==
    \E t1 \in Later(now) : \E t2 \in Later(t1) : \E t3 \in Later(t2) :
    \E order \in Perms(DOMAIN frames) :
        LET listed == InMemoryStore_get_frames(frames, order,
                          IF IsSome(from) THEN Unwrap(from) ELSE t1 - 7 * TicksPerDay,
                          IF IsSome(to) THEN Unwrap(to) ELSE t2)
            with_current == current /\ get_state_store(ongoing_frame) = "Ongoing"
            temp == Frame_set_end(Frame_from(StateStore_get_ongoing(ongoing_frame), t3), t3)
            shown == IF with_current THEN Append(listed, temp) ELSE listed
        IN  /\ result' = [cmd |-> "Log", res |-> FrameLog_fmt(shown).res,
                          current |-> current, shown |-> shown,
                          printed |-> FrameLog_fmt(shown).printed]
            /\ now' = IF with_current THEN t3 ELSE t2
            /\ frames' = IF with_current THEN InMemoryStore_save_frame(frames, temp)
                         ELSE frames
            /\ UNCHANGED <<ongoing_frame, file_frames, frames_text,
                           state_text, procs>>

\* execute_command, Command::Log, and CommandExecutor::show_log: t1 and t2 are
\* the clock readings that stand in for a missing --from (seven days back)
\* and --to, t3 the reading the frame of --current is built and ended at.
Log(current, from, to) ==
    \E t1 \in Later(now) : \E t2 \in Later(t1) : \E t3 \in Later(t2) :
    \E order \in Perms(DOMAIN frames) :
        LET listed == InMemoryStore_get_frames(frames, order,
                          IF IsSome(from) THEN Unwrap(from) ELSE t1 - 7 * TicksPerDay,
                          IF IsSome(to) THEN Unwrap(to) ELSE t2)
            with_current == current /\ get_state_store(ongoing_frame) = "Ongoing"
            temp == Frame_set_end(Frame_from(StateStore_get_ongoing(ongoing_frame), t3), t3)
            shown == IF with_current THEN Append(listed, temp) ELSE listed
        IN  /\ result' = [cmd |-> "Log", res |-> FrameLog_fmt(shown).res,
                          current |-> current, shown |-> shown,
                          printed |-> FrameLog_fmt(shown).printed]
            /\ now' = IF with_current THEN t3 ELSE t2
            /\ UNCHANGED <<ongoing_frame, frames, file_frames, frames_text,
                           state_text, procs>>

\* The commands that only read, next to the Start and Stop that give them
\* something to read.
NextRead ==
    \/ Start("a", << >>, FALSE)
    \/ Stop(None)
    \/ Status
    \/ Projects
    \/ \E current \in BOOLEAN, from \in LogRangeInputs, to \in LogRangeInputs :
          Log(current, from, to)

SpecRead == Init /\ [][NextRead]_vars

\* The slices FrameLog is built over: completed frames that start and end
\* within the clock range, in any order, repeats included.
LogFrames ==
    {[project |-> "a", id |-> generate_id(se[2]), start |-> se[1],
      end |-> Some(se[2]), tags |-> << >>, last_edit |-> se[2]] :
        se \in {x \in (0..MaxTime) \X (0..MaxTime) : x[1] <= x[2]}}

MaxLogFrames == 3

InitLog ==
    /\ ongoing_frame = None
    /\ frames = EmptyMap
    /\ file_frames = << >>
    /\ frames_text = MissingFile
    /\ state_text = MissingFile
    /\ procs = << >>
    /\ now = 0
    /\ \E fs \in SeqsUpTo(LogFrames, MaxLogFrames) :
          result = [cmd |-> "FrameLog::new", res |-> "Ok", frames |-> fs,
                    map |-> EmptyMap]

\* FrameLog::grouped_by_day on the slice the log was built over.
GroupedByDay ==
    /\ result.cmd = "FrameLog::new"
    /\ result' = [cmd |-> "grouped_by_day",
                  res |-> FrameLog_grouped_by_day(result.frames).res,
                  frames |-> result.frames,
                  map |-> FrameLog_grouped_by_day(result.frames).map]
    /\ UNCHANGED <<ongoing_frame, frames, file_frames, frames_text, state_text,
                   procs, now>>

NextLog == GroupedByDay

SpecLog == InitLog /\ [][NextLog]_vars

----------------------------------------------------------------------------

(* watson.rs: FrameEdit, the form in which a frame is handed to the editor *)

\* A date-time text: DateString(s) is the text "YYYY-MM-DD HH:MM:SS" of the
\* second s, BadDateString a text that is not of that form.
DateString(secs) == << "dt", secs >>
BadDateString == << "bad", 0 >>

\* DateTime::format(EDIT_DATETIME_FORMAT): the text of the second t lies in.
DateTime_format(t) == DateString(timestamp(t))

\* Variant of NaiveDateTime_parse_from_str that reads every text as the
\* second after the one it names.
NaiveDateTime_parse_from_str_late(s) ==
    IF s[1] = "dt" THEN Some(timestamp_opt(s[2] + 1)) ELSE None

\* NaiveDateTime::parse_from_str(s, EDIT_DATETIME_FORMAT) in the local time
\* zone: the start of the second the text names, None for a text that is not
\* a date-time.
NaiveDateTime_parse_from_str(s) ==
    IF s[1] = "dt" THEN Some(timestamp_opt(s[2])) ELSE None

\* From<&frame::Frame> for FrameEdit
FrameEdit_from(frame) ==
    [project |-> frame.project,
     start   |-> DateTime_format(frame.start),
     stop    |-> IF IsSome(frame.end)
                 THEN Some(DateTime_format(Unwrap(frame.end))) ELSE None,
     tags    |-> frame.tags]

\* FrameEdit built from an ongoing frame: the same fields, no stop.
FrameEdit_from_ongoing(o) ==
    [project |-> o.project,
     start   |-> DateTime_format(o.start),
     stop    |-> None,
     tags    |-> o.tags]

\* FrameEdit::start unwraps the parse of the start text: it aborts the program
\* when the text is not a date-time.
FrameEdit_start_panics(edit) == ~IsSome(NaiveDateTime_parse_from_str(edit.start))
FrameEdit_start(edit) == Unwrap(NaiveDateTime_parse_from_str(edit.start))

\* FrameEdit::stop maps the stop text, if there is one, through the same
\* parse and unwrap.
FrameEdit_stop_panics(edit) ==
    IsSome(edit.stop) /\ ~IsSome(NaiveDateTime_parse_from_str(Unwrap(edit.stop)))
FrameEdit_stop(edit) ==
    IF IsSome(edit.stop) THEN NaiveDateTime_parse_from_str(Unwrap(edit.stop)) ELSE None

\* serde_json::to_writer_pretty(&frame_edit): the text of the temporary file.
\* A file is a record: json says whether the text is JSON at all, the other
\* fields hold the members of the object, None for a member that is absent.
FrameEdit_serialize(edit) ==
    [json    |-> TRUE,
     project |-> Some(edit.project),
     start   |-> Some(edit.start),
     stop    |-> edit.stop,
     tags    |-> Some(edit.tags)]

\* serde_json::from_reader::<FrameEdit>: None stands for Err; project, start
\* and tags are required members, stop is optional.
FrameEdit_deserialize(file) ==
    IF file.json /\ IsSome(file.project) /\ IsSome(file.start) /\ IsSome(file.tags)
    THEN Some([project |-> Unwrap(file.project),
               start   |-> Unwrap(file.start),
               stop    |-> file.stop,
               tags    |-> Unwrap(file.tags)])
    ELSE None

\* Frame::update_from(FrameEdit) at clock reading t: project, start, end and
\* tags are those of the edit, last_edit is the clock reading, the id stays.
Frame_update_from(frame, edit, t) ==
    [frame EXCEPT !.project = edit.project,
                  !.start = FrameEdit_start(edit),
                  !.end = FrameEdit_stop(edit),
                  !.tags = edit.tags,
                  !.last_edit = t]

\* OngoingFrame::update_from: project, start and tags are those of the edit.
OngoingFrame_update_from(o, edit) ==
    [o EXCEPT !.project = edit.project,
              !.start = FrameEdit_start(edit),
              !.tags = edit.tags]

\* Variant of StateStore_update_ongoing that empties the slot.
StateStore_update_ongoing_clears(slot, ongoing) == Backend_clear(slot).slot

\* StateStore<Ongoing>::update_ongoing
StateStore_update_ongoing(slot, ongoing) == Backend_store(slot, ongoing)

----------------------------------------------------------------------------
(* cli.rs: Command::Edit and the external editor *)

\* The date-time texts a user types into the temporary file: a start, a stop,
\* and a text that is not a date-time.
EditStartStrings == {DateString(0), BadDateString}
EditStopStrings == {DateString(timestamp(MaxTime)), BadDateString}

\* A file whose text is not JSON, and an object lacking its start member.
NotJson ==
    [json |-> FALSE, project |-> None, start |-> None, stop |-> None, tags |-> None]
MissingStart ==
    [json |-> TRUE, project |-> Some("b"), start |-> None, stop |-> None,
     tags |-> Some(<<"x">>)]

\* What the user may have left in the temporary file, besides leaving it as
\* it was written.
EditedFiles ==
    {NotJson, MissingStart} \cup
    {[json |-> TRUE, project |-> Some("b"), start |-> Some(sd), stop |-> st,
      tags |-> Some(<<"x">>)] :
        sd \in EditStartStrings, st \in {None} \cup {Some(d) : d \in EditStopStrings}}

\* The temporary file after the editor ran on the file `written`.
EditorOutputs(written) == {written} \cup EditedFiles

\* The EDITOR environment variable: not set, or the name of a program.
EditorEnv == {None, Some("vi")}

\* Frame ids a user can give to `edit`.
EditIds == {generate_id(0), generate_id(MaxTime)}

\* The outcome record of an Edit: the error or Ok, what was to be edited,
\* whether the editor ran, and if so its exit status and the file it left.
EditResult(res, target, id, ran, exit_ok, file) ==
    [cmd |-> "Edit", res |-> res, target |-> target, id |-> id, ran |-> ran,
     exit_ok |-> ran /\ exit_ok, file |-> IF ran THEN file ELSE NotJson]

\* Variant of edit_frame_in_editor that never looks at the exit status.
edit_frame_in_editor_any_exit(editor, exit_ok, file) ==
    LET updated_frame_edit == FrameEdit_deserialize(file)
    IN  IF ~IsSome(editor) THEN [res |-> "EditorNotSet", edit |-> None]
        ELSE IF ~IsSome(updated_frame_edit)
        THEN [res |-> "SerializationError", edit |-> None]
        ELSE [res |-> "Ok", edit |-> updated_frame_edit]

\* CommandExecutor::edit_frame_in_editor, from the point where the editor has
\* exited with status exit_ok and left `file`: the file is parsed first, the
\* exit status is looked at afterwards.
edit_frame_in_editor(editor, exit_ok, file) ==
    LET updated_frame_edit == FrameEdit_deserialize(file)
    IN  IF ~IsSome(editor) THEN [res |-> "EditorNotSet", edit |-> None]
        ELSE IF ~IsSome(updated_frame_edit)
        THEN [res |-> "SerializationError", edit |-> None]
        ELSE IF exit_ok THEN [res |-> "Ok", edit |-> updated_frame_edit]
        ELSE [res |-> "EditorError", edit |-> None]

\* Variant of CommandExecutor_edit that saves the edited frame under a new id.
CommandExecutor_edit_new_id(frame_id, editor, exit_ok, t) ==
    LET got == InMemoryStore_get_frame(frames, frame_id)
        id == Some(frame_id)
    IN  IF ~IsSome(got)
        THEN /\ result' = EditResult("InvalidFrame", "completed", id, FALSE, FALSE, NotJson)
             /\ UNCHANGED <<ongoing_frame, frames>>
        ELSE \E file \in EditorOutputs(FrameEdit_serialize(FrameEdit_from(Unwrap(got)))) :
                LET r == edit_frame_in_editor(editor, exit_ok, file)
                    ran == IsSome(editor)
                IN  IF r.res # "Ok"
                    THEN /\ result' = EditResult(r.res, "completed", id, ran, exit_ok, file)
                         /\ UNCHANGED <<ongoing_frame, frames>>
                    ELSE IF \/ FrameEdit_start_panics(Unwrap(r.edit))
                            \/ FrameEdit_stop_panics(Unwrap(r.edit))
                    THEN /\ result' = EditResult("PanicInFrameEdit", "completed", id,
                                                 ran, exit_ok, file)
                         /\ UNCHANGED <<ongoing_frame, frames>>
                    ELSE LET frame == Frame_update_from(Unwrap(got), Unwrap(r.edit), t)
                             completed == CompletedFrame_from_frame(frame)
                         IN  IF ~IsSome(completed)
                             THEN /\ result' = EditResult("PanicInFromFrameUnwrap",
                                                 "completed", id, ran, exit_ok, file)
                                  /\ UNCHANGED <<ongoing_frame, frames>>
                             ELSE /\ frames' = InMemoryStore_save_frame(frames,
                                        [Unwrap(completed) EXCEPT !.id = generate_id(t)])
                                  /\ result' = EditResult("Ok", "completed", id,
                                                 ran, exit_ok, file)
                                  /\ UNCHANGED ongoing_frame

\* CommandExecutor::edit at clock reading t: look the frame up, hand it to the
\* editor, patch it from the answer, save it.  Parsing the dates of the answer
\* and wrapping the patched frame can each abort the program.
CommandExecutor_edit(frame_id, editor, exit_ok, t) ==
    LET got == InMemoryStore_get_frame(frames, frame_id)
        id == Some(frame_id)
    IN  IF ~IsSome(got)
        THEN /\ result' = EditResult("InvalidFrame", "completed", id, FALSE, FALSE, NotJson)
             /\ UNCHANGED <<ongoing_frame, frames>>
        ELSE \E file \in EditorOutputs(FrameEdit_serialize(FrameEdit_from(Unwrap(got)))) :
                LET r == edit_frame_in_editor(editor, exit_ok, file)
                    ran == IsSome(editor)
                IN  IF r.res # "Ok"
                    THEN /\ result' = EditResult(r.res, "completed", id, ran, exit_ok, file)
                         /\ UNCHANGED <<ongoing_frame, frames>>
                    ELSE IF \/ FrameEdit_start_panics(Unwrap(r.edit))
                            \/ FrameEdit_stop_panics(Unwrap(r.edit))
                    THEN /\ result' = EditResult("PanicInFrameEdit", "completed", id,
                                                 ran, exit_ok, file)
                         /\ UNCHANGED <<ongoing_frame, frames>>
                    ELSE LET frame == Frame_update_from(Unwrap(got), Unwrap(r.edit), t)
                             completed == CompletedFrame_from_frame(frame)
                         IN  IF ~IsSome(completed)
                             THEN /\ result' = EditResult("PanicInFromFrameUnwrap",
                                                 "completed", id, ran, exit_ok, file)
                                  /\ UNCHANGED <<ongoing_frame, frames>>
                             ELSE /\ frames' = InMemoryStore_save_frame(frames,
                                                                        Unwrap(completed))
                                  /\ result' = EditResult("Ok", "completed", id,
                                                 ran, exit_ok, file)
                                  /\ UNCHANGED ongoing_frame

\* CommandExecutor::edit_ongoing: hand the ongoing frame to the editor, patch
\* it from the answer, write it back to the slot.
CommandExecutor_edit_ongoing(editor, exit_ok) ==
    LET ongoing == StateStore_get_ongoing(ongoing_frame)
    IN  \E file \in EditorOutputs(FrameEdit_serialize(FrameEdit_from_ongoing(ongoing))) :
            LET r == edit_frame_in_editor(editor, exit_ok, file)
                ran == IsSome(editor)
            IN  IF r.res # "Ok"
                THEN /\ result' = EditResult(r.res, "ongoing", None, ran, exit_ok, file)
                     /\ UNCHANGED <<ongoing_frame, frames>>
                ELSE IF FrameEdit_start_panics(Unwrap(r.edit))
                THEN /\ result' = EditResult("PanicInFrameEdit", "ongoing", None,
                                             ran, exit_ok, file)
                     /\ UNCHANGED <<ongoing_frame, frames>>
                ELSE /\ ongoing_frame' = StateStore_update_ongoing(ongoing_frame,
                            OngoingFrame_update_from(ongoing, Unwrap(r.edit)))
                     /\ result' = EditResult("Ok", "ongoing", None, ran, exit_ok, file)
                     /\ UNCHANGED frames

\* Variant of Edit that looks at the ongoing frame before the given id.
Edit_ongoing_first(id) ==
    \E t \in Later(now), editor \in EditorEnv, exit_ok \in BOOLEAN :
        /\ now' = t
        /\ UNCHANGED <<file_frames, frames_text, state_text, procs>>
        /\ IF get_state_store(ongoing_frame) = "Ongoing"
           THEN CommandExecutor_edit_ongoing(editor, exit_ok)
           ELSE IF IsSome(id)
           THEN CommandExecutor_edit(Unwrap(id), editor, exit_ok, t)
           ELSE \E order \in Perms(DOMAIN frames) :
                   LET f == InMemoryStore_get_last_frame(frames, order)
                   IN  IF IsSome(f)
                       THEN CommandExecutor_edit(Unwrap(f).id, editor, exit_ok, t)
                       ELSE /\ result' = EditResult("InvalidFrame", "none", None,
                                                    FALSE, FALSE, NotJson)
                            /\ UNCHANGED <<ongoing_frame, frames>>

\* execute_command, Command::Edit { id }: the frame of the given id, else the
\* ongoing frame, else the last completed frame, else InvalidFrame.
Edit(id) ==
    \E t \in Later(now), editor \in EditorEnv, exit_ok \in BOOLEAN :
        /\ now' = t
        /\ UNCHANGED <<file_frames, frames_text, state_text, procs>>
        /\ IF IsSome(id)
           THEN CommandExecutor_edit(Unwrap(id), editor, exit_ok, t)
           ELSE IF get_state_store(ongoing_frame) = "Ongoing"
           THEN CommandExecutor_edit_ongoing(editor, exit_ok)
           ELSE \E order \in Perms(DOMAIN frames) :
                   LET f == InMemoryStore_get_last_frame(frames, order)
                   IN  IF IsSome(f)
                       THEN CommandExecutor_edit(Unwrap(f).id, editor, exit_ok, t)
                       ELSE /\ result' = EditResult("InvalidFrame", "none", None,
                                                    FALSE, FALSE, NotJson)
                            /\ UNCHANGED <<ongoing_frame, frames>>

\* The completed frame that a Start of project "a" at clock reading s and a
\* Stop at clock reading t leave in the store.
StoppedFrame(s, t) ==
    StateStore_stop(Backend_store(None, OngoingFrame_new("a", s, << >>)), t, t).frame

\* The stores the edits begin with: empty, one frame, two frames.
EditStores ==
    {EmptyMap,
     InMemoryStore_save_frame(EmptyMap, StoppedFrame(0, 0)),
     InMemoryStore_save_frame(InMemoryStore_save_frame(EmptyMap, StoppedFrame(0, 0)),
                              StoppedFrame(1, 1))}

\* The states the edits begin with, as Start and Stop leave them at clock
\* reading 1: one of the stores above, and nothing or project "a" ongoing.
InitEdit ==
    /\ ongoing_frame \in {None, Backend_store(None, OngoingFrame_new("a", 1, << >>))}
    /\ frames \in EditStores
    /\ file_frames = << >>
    /\ frames_text = MissingFile
    /\ state_text = MissingFile
    /\ procs = << >>
    /\ now = 1
    /\ result = [cmd |-> "new", res |-> "Ok"]

NextEdit == \E id \in {None} \cup {Some(i) : i \in EditIds} : Edit(id)

SpecEdit == InitEdit /\ [][NextEdit]_vars

----------------------------------------------------------------------------
(* frame.rs: CompletedFrame::from_frame and Frame::set_end on given frames *)

\* The frames handed to from_frame and set_end: with an end and without one.
FrameValues ==
    {[project |-> p.project, id |-> i, start |-> s, end |-> e,
      tags |-> p.tags, last_edit |-> p.last_edit] :
        p \in Payloads, i \in StoreIds, s \in Times,
        e \in {None} \cup {Some(t) : t \in Times}}

\* A frame has been built; nothing has been called on it yet.
InitFrame ==
    /\ ongoing_frame = None
    /\ frames = EmptyMap
    /\ file_frames = << >>
    /\ frames_text = MissingFile
    /\ state_text = MissingFile
    /\ procs = << >>
    /\ now = 0
    /\ result \in {[cmd |-> "Frame", frame |-> f] : f \in FrameValues}

\* CompletedFrame::from_frame(frame)
FromFrame ==
    /\ result.cmd = "Frame"
    /\ result' = [cmd |-> "from_frame", frame |-> result.frame,
                  ret |-> CompletedFrame_from_frame(result.frame)]
    /\ UNCHANGED <<ongoing_frame, frames, file_frames, frames_text, state_text, procs, now>>

\* frame.set_end(end)
SetEnd(end) ==
    /\ result.cmd = "Frame"
    /\ result' = [cmd |-> "set_end", frame |-> result.frame, end |-> end,
                  ret |-> Frame_set_end(result.frame, end)]
    /\ UNCHANGED <<ongoing_frame, frames, file_frames, frames_text, state_text, procs, now>>

NextFrame ==
    \/ FromFrame
    \/ \E end \in Times : SetEnd(end)

SpecFrame == InitFrame /\ [][NextFrame]_vars

----------------------------------------------------------------------------
(* cli.rs: edit and edit_ongoing with a file that comes back as written *)

InitTrip ==
    /\ ongoing_frame = None
    /\ frames = EmptyMap
    /\ file_frames = << >>
    /\ frames_text = MissingFile
    /\ state_text = MissingFile
    /\ procs = << >>
    /\ now = 0
    /\ \E f \in FrameValues :
          \/ result = [cmd |-> "new", kind |-> "frame", before |-> f]
          \/ result = [cmd |-> "new", kind |-> "ongoing",
                       before |-> OngoingFrame_new(f.project, f.start, f.tags)]

\* CommandExecutor::edit, from FrameEdit::from to update_from, with the
\* temporary file read back as it was written.
TripFrame ==
    /\ result.cmd = "new" /\ result.kind = "frame"
    /\ \E t \in Later(now) :
         LET file == FrameEdit_serialize(FrameEdit_from(result.before))
             edit == Unwrap(FrameEdit_deserialize(file))
         IN  /\ now' = t
             /\ result' = [cmd |-> "round_trip", kind |-> "frame",
                           before |-> result.before, file |-> file,
                           after |-> Frame_update_from(result.before, edit, t)]
    /\ UNCHANGED <<ongoing_frame, frames, file_frames, frames_text, state_text, procs>>

\* CommandExecutor::edit_ongoing, likewise.
TripOngoing ==
    /\ result.cmd = "new" /\ result.kind = "ongoing"
    /\ LET file == FrameEdit_serialize(FrameEdit_from_ongoing(result.before))
           edit == Unwrap(FrameEdit_deserialize(file))
       IN  result' = [cmd |-> "round_trip", kind |-> "ongoing",
                      before |-> result.before, file |-> file,
                      after |-> OngoingFrame_update_from(result.before, edit)]
    /\ UNCHANGED <<ongoing_frame, frames, file_frames, frames_text, state_text,
                   procs, now>>

NextTrip == TripFrame \/ TripOngoing

SpecTrip == InitTrip /\ [][NextTrip]_vars

----------------------------------------------------------------------------

(* Properties of the command layer, checked under Spec *)

\* C1: a Start executed while a frame is ongoing returns OngoingProject with the
\* project of the running frame, and changes neither the slot nor the store.
C1_StartWhileOngoingRejected ==
    [][(result'.cmd = "Start" /\ IsSome(ongoing_frame)) =>
          /\ result'.res = "OngoingProject"
          /\ result'.project = Unwrap(ongoing_frame).project
          /\ ongoing_frame' = ongoing_frame
          /\ frames' = frames]_vars

\* A Start for another project than the running one was rejected.
C1_Witness ==
    /\ result.cmd = "Start" /\ result.res = "OngoingProject"
    /\ IsSome(ongoing_frame)
    /\ result.requested # Unwrap(ongoing_frame).project
    /\ result.requested # ""

\* C2: a successful stop at time t returns a completed frame with the start,
\* project and tags of the ongoing frame and end t, empties the slot, and
\* get_state_store then answers Stopped.
C2_StopCompletesOngoing ==
    [][(result'.cmd = "Stop" /\ result'.res = "Ok") =>
          /\ IsSome(ongoing_frame)
          /\ result'.frame.start = Unwrap(ongoing_frame).start
          /\ result'.frame.project = Unwrap(ongoing_frame).project
          /\ result'.frame.tags = Unwrap(ongoing_frame).tags
          /\ result'.frame.end = Some(result'.at)
          /\ ongoing_frame' = None
          /\ get_state_store(ongoing_frame') = "Stopped"]_vars

\* A frame with tags was stopped at an explicit time earlier than the clock.
C2_Witness ==
    /\ result.cmd = "Stop" /\ result.res = "Ok"
    /\ result.explicit /\ result.at < now
    /\ result.frame.tags # << >>
    /\ ongoing_frame = None

\* C3: a successful Start with project p, start s and tags g leaves exactly the
\* ongoing frame (p, s, g) in the slot, get_state_store then answers Ongoing,
\* and the completed-frame store is unchanged.
C3_StartWritesOngoing ==
    [][(result'.cmd = "Start" /\ result'.res = "Ok") =>
          /\ ongoing_frame = None
          /\ get_state_store(ongoing_frame') = "Ongoing"
          /\ StateStore_get_ongoing(ongoing_frame') =
                 [project |-> result'.project, start |-> result'.start,
                  tags |-> result'.tags]
          /\ frames' = frames]_vars

\* A frame with tags was started while the store already held a completed frame.
C3_Witness ==
    /\ result.cmd = "Start" /\ result.res = "Ok"
    /\ IsSome(ongoing_frame) /\ Unwrap(ongoing_frame).tags # << >>
    /\ frames # EmptyMap

\* C4: a Cancel executed while a frame is ongoing empties the slot and leaves
\* the completed-frame store as it was.
C4_CancelDiscards ==
    [][(result'.cmd = "Cancel" /\ IsSome(ongoing_frame)) =>
          /\ result'.res = "Ok"
          /\ ongoing_frame' = None
          /\ get_state_store(ongoing_frame') = "Stopped"
          /\ frames' = frames]_vars

\* A frame was cancelled while the store held a completed frame.
C4_Witness ==
    /\ result.cmd = "Cancel" /\ result.res = "Ok"
    /\ ongoing_frame = None
    /\ frames # EmptyMap

\* C5: Stop, Cancel and Status executed while nothing is ongoing return
\* NoOngoingRecording, leave the slot empty and the store unchanged.
C5_NothingOngoingRejected ==
    [][(result'.cmd \in {"Stop", "Cancel", "Status"} /\ ongoing_frame = None) =>
          /\ result'.res = "NoOngoingRecording"
          /\ ongoing_frame' = None
          /\ frames' = frames]_vars

\* A Status was rejected while the store held a completed frame.
C5_Witness ==
    /\ result.cmd = "Status" /\ result.res = "NoOngoingRecording"
    /\ ongoing_frame = None
    /\ frames # EmptyMap

\* C6: a Stop with an explicit time later than the clock, executed while a frame
\* is ongoing, returns FutureStopDate and changes neither the slot nor the store.
C6_FutureStopRejected ==
    [][(/\ result'.cmd = "Stop" /\ IsSome(ongoing_frame)
        /\ result'.explicit /\ result'.at > now') =>
          /\ result'.res = "FutureStopDate"
          /\ ongoing_frame' = ongoing_frame
          /\ frames' = frames]_vars

\* A Stop one tick ahead of the clock was rejected.
C6_Witness ==
    /\ result.cmd = "Stop" /\ result.res = "FutureStopDate"
    /\ result.explicit /\ result.at = now + 1
    /\ IsSome(ongoing_frame)

\* C7: a successful Stop at T1 of a frame of project p started at T0, on an
\* empty store, leaves exactly one frame; get_last_frame returns it with
\* project p, start T0 and end T1, and get_projects returns [p].
C7_StartThenStop ==
    [][(result'.cmd = "Stop" /\ result'.res = "Ok" /\ frames = EmptyMap) =>
          /\ Cardinality(DOMAIN frames') = 1
          /\ \A order \in Perms(DOMAIN frames') :
                LET last == InMemoryStore_get_last_frame(frames', order)
                IN  /\ IsSome(last)
                    /\ Unwrap(last).project = Unwrap(ongoing_frame).project
                    /\ Unwrap(last).start = Unwrap(ongoing_frame).start
                    /\ CompletedFrame_end(Unwrap(last)) = result'.at
                    /\ CompletedFrame_end(Unwrap(last)) - Unwrap(last).start
                           = result'.at - Unwrap(ongoing_frame).start
                    /\ InMemoryStore_get_projects(frames', order)
                           = << Unwrap(ongoing_frame).project >>]_vars

\* The first frame of the store was stopped a positive time after its start.
C7_Witness ==
    /\ result.cmd = "Stop" /\ result.res = "Ok"
    /\ DOMAIN frames = {result.frame.id}
    /\ result.at > result.frame.start

----------------------------------------------------------------------------
(* Properties of the frame stores: C8 is checked under SpecSave, C9 and C10  *)
(* under SpecStore                                                         *)

\* The set of elements of a sequence.
Range(seq) == {seq[i] : i \in 1..Len(seq)}

\* A time with its sub-second part dropped.
WholeSeconds(t) == t - (t % TicksPerSecond)

\* A completed frame with start, end and last_edit cut to whole seconds.
SecondTruncated(f) ==
    [f EXCEPT !.start = WholeSeconds(f.start),
              !.end = Some(WholeSeconds(CompletedFrame_end(f))),
              !.last_edit = WholeSeconds(f.last_edit)]

\* save_frame(f) on the in-memory map: the entry of f's id is f, the other
\* entries are as before, no entry is added besides.
MemUpsert(f) ==
    /\ DOMAIN frames' = DOMAIN frames \cup {f.id}
    /\ frames'[f.id] = f
    /\ \A i \in DOMAIN frames \ {f.id} : frames'[i] = frames[i]
    /\ Cardinality(DOMAIN frames') =
           Cardinality(DOMAIN frames) + (IF f.id \in DOMAIN frames THEN 0 ELSE 1)
    /\ \A i \in DOMAIN frames' : frames'[i].id = i

\* save_frame(f) on the frames file: exactly one stored frame has f's id and it
\* is `stored`; the frames of other ids are as before; the count grows by one
\* iff the id is new; no two stored frames share an id.
FileUpsert(f, stored) ==
    LET before == Store_load(file_frames)
        after == Store_load(file_frames')
        IdsBefore == {before[i].id : i \in 1..Len(before)}
    IN  /\ Cardinality({i \in 1..Len(after) : after[i].id = f.id}) = 1
        /\ \A i \in 1..Len(after) : after[i].id = f.id => after[i] = stored
        /\ {x \in Range(after) : x.id # f.id} = {x \in Range(before) : x.id # f.id}
        /\ Len(after) = Len(before) + (IF f.id \in IdsBefore THEN 0 ELSE 1)
        /\ \A i, j \in 1..Len(after) : after[i].id = after[j].id => i = j

\* C8 as stated: in both stores save_frame(f) is an upsert by id after which
\* the stored frame equals f in all fields.
C8_UpsertExactInBothStores ==
    [][result'.cmd = "save_frame" =>
          /\ MemUpsert(result'.frame)
          /\ FileUpsert(result'.frame, result'.frame)]_vars

\* C8, amended: save_frame(f) is an upsert by id in both stores; the in-memory
\* store then holds f itself, the file store holds f with start, end and
\* last_edit cut to whole seconds.
C8_UpsertById ==
    [][result'.cmd = "save_frame" =>
          /\ MemUpsert(result'.frame)
          /\ FileUpsert(result'.frame, SecondTruncated(result'.frame))]_vars

\* A frame with a sub-second start replaced the stored frame of its id, while a
\* frame of another id was stored.
C8_Witness ==
    /\ result.cmd = "save_frame" /\ result.existed
    /\ result.frame.start % TicksPerSecond # 0
    /\ Cardinality(DOMAIN frames) = 2
    /\ Len(file_frames) = 2
    /\ frames[result.frame.id] = result.frame

\* C9: get_frames(from, to) returns exactly the stored frames with start < to
\* and end > from, each once: partial overlap is in, touching is out.
C9_GetFramesOverlap ==
    result.cmd = "get_frames" =>
        LET from == result.start
            to == result.end
            ret == result.ret
            Stored == {frames[k] : k \in DOMAIN frames}
        IN  /\ Range(ret) = {f \in Stored : f.start < to /\ Unwrap(f.end) > from}
            /\ \A i, j \in 1..Len(ret) : ret[i] = ret[j] => i = j
            /\ \A f \in Stored :
                   /\ (f.start < from /\ from < Unwrap(f.end) /\ from < to) => f \in Range(ret)
                   /\ (f.start < to /\ to < Unwrap(f.end) /\ from < to) => f \in Range(ret)
                   /\ Unwrap(f.end) = from => f \notin Range(ret)
                   /\ f.start = to => f \notin Range(ret)

\* A query returned a frame that begins before the window and ends inside it,
\* and left out a frame that ends where the window begins.
C9_Witness ==
    /\ result.cmd = "get_frames"
    /\ \E k1, k2 \in DOMAIN frames :
          /\ frames[k1].start < result.start
          /\ Unwrap(frames[k1].end) > result.start
          /\ Unwrap(frames[k1].end) < result.end
          /\ frames[k1] \in Range(result.ret)
          /\ frames[k2].start < result.start
          /\ Unwrap(frames[k2].end) = result.start
          /\ frames[k2] \notin Range(result.ret)

\* C10: get_last_frame of the in-memory store is none iff the store is empty,
\* and otherwise a stored frame whose end no stored frame exceeds.
C10_LastFrameHasMaxEnd ==
    result.cmd = "get_last_frame" =>
        /\ (result.ret = None) <=> (DOMAIN frames = {})
        /\ IsSome(result.ret) =>
               /\ \E k \in DOMAIN frames : frames[k] = Unwrap(result.ret)
               /\ \A k \in DOMAIN frames :
                      Unwrap(frames[k].end) <= Unwrap(Unwrap(result.ret).end)

\* The frame returned ends last although the other stored frame starts later.
C10_Witness ==
    /\ result.cmd = "get_last_frame" /\ IsSome(result.ret)
    /\ \E k \in DOMAIN frames :
          /\ frames[k].start > Unwrap(result.ret).start
          /\ Unwrap(frames[k].end) < Unwrap(Unwrap(result.ret).end)

----------------------------------------------------------------------------
(* Properties of the store queries, checked under SpecQuery *)

\* C11: get_last_frame of the file store is none iff the store is empty, and
\* otherwise a stored frame whose end no stored frame exceeds, also when the
\* frame with the latest start is not the frame with the latest end.
C11_FileLastFrameHasMaxEnd ==
    result.cmd = "Store_get_last_frame" =>
        LET stored == Store_load(file_frames)
        IN  /\ (result.ret = None) <=> (stored = << >>)
            /\ IsSome(result.ret) =>
                   /\ Unwrap(result.ret) \in Range(stored)
                   /\ \A f \in Range(stored) :
                          CompletedFrame_end(f) <= CompletedFrame_end(Unwrap(result.ret))

\* C12: get_projects returns, in the in-memory store and in the file store
\* alike, every project of a stored frame exactly once and no other name.
C12_ProjectsDeduplicated ==
    result.cmd = "get_projects" =>
        LET NoRepeat(s) == \A i, j \in 1..Len(s) : s[i] = s[j] => i = j
        IN  /\ Range(result.mem) = {frames[k].project : k \in DOMAIN frames}
            /\ NoRepeat(result.mem)
            /\ Range(result.file) = {f.project : f \in Range(Store_load(file_frames))}
            /\ NoRepeat(result.file)

----------------------------------------------------------------------------
(* Properties of frame construction, checked under SpecFrame *)

----------------------------------------------------------------------------
(* Properties of the stored frames under the command layer, checked under   *)
(* Spec                                                                    *)

\* C15: every completed frame the commands have stored has start <= end.
C15_StoredFramesWellFormed ==
    \A k \in DOMAIN frames : frames[k].start <= CompletedFrame_end(frames[k])

(* C16 is checked under SpecFile: the commands over the file store.        *)

\* C16: no two frames the commands have stored overlap: there are no stored
\* frames f and g with f.start < g.end and g.start < f.end.
C16_StoredFramesDisjoint ==
    LET stored == Store_load(file_frames)
    IN  \A i, j \in 1..Len(stored) :
            i # j =>
                ~(/\ stored[i].start < CompletedFrame_end(stored[j])
                  /\ stored[j].start < CompletedFrame_end(stored[i]))

----------------------------------------------------------------------------
(* Properties of Command::Edit, checked under SpecEdit *)

\* C13: no editor response makes the edit of a completed frame call from_frame
\* on a frame without an end: the unwrap of the edit path never aborts.
C13_FromFrameNeverFails ==
    ~(result.cmd = "Edit" /\ result.res = "PanicInFromFrameUnwrap")

\* C17: when the editor ran and exited with a non-zero status, Edit returns an
\* error and changes neither the ongoing slot nor the store, whatever the
\* temporary file holds.
C17_EditorFailureDiscards ==
    [][(result'.cmd = "Edit" /\ result'.ran /\ ~result'.exit_ok) =>
          /\ result'.res \in {"EditorError", "SerializationError"}
          /\ ongoing_frame' = ongoing_frame
          /\ frames' = frames]_vars

\* The editor failed on the ongoing frame of project "a" after a complete
\* payload for project "b", with a stop, was written to the file.
C17_Witness ==
    /\ result.cmd = "Edit" /\ result.ran /\ ~result.exit_ok
    /\ result.res = "EditorError"
    /\ result.target = "ongoing"
    /\ result.file.project = Some("b")
    /\ IsSome(result.file.stop)
    /\ IsSome(ongoing_frame) /\ Unwrap(ongoing_frame).project = "a"

\* A payload that is not a FrameEdit: no JSON, a required member missing, or a
\* start or stop text that is not a date-time.
Malformed(file) ==
    \/ ~file.json
    \/ ~IsSome(file.project) \/ ~IsSome(file.start) \/ ~IsSome(file.tags)
    \/ ~IsSome(NaiveDateTime_parse_from_str(Unwrap(file.start)))
    \/ IsSome(file.stop) /\ ~IsSome(NaiveDateTime_parse_from_str(Unwrap(file.stop)))

\* C18: when the editor exited cleanly and the payload is malformed, Edit ends
\* with an error (an abort counted as one) and changes neither the ongoing
\* slot nor the store.
C18_MalformedPayloadRejected ==
    [][(result'.cmd = "Edit" /\ result'.ran /\ result'.exit_ok
            /\ Malformed(result'.file)) =>
          /\ result'.res # "Ok"
          /\ ongoing_frame' = ongoing_frame
          /\ frames' = frames]_vars

\* C19: a successful Edit of the completed frame with id i leaves the ids of
\* the store and their number as they were; the frame stored under i has id
\* i and the project, start, end and tags of the payload; the other frames
\* are untouched.
C19_EditKeepsId ==
    [][(result'.cmd = "Edit" /\ result'.res = "Ok" /\ result'.target = "completed") =>
          LET i == Unwrap(result'.id)
              file == result'.file
          IN  /\ i \in DOMAIN frames
              /\ DOMAIN frames' = DOMAIN frames
              /\ Cardinality(DOMAIN frames') = Cardinality(DOMAIN frames)
              /\ \A k \in DOMAIN frames' : frames'[k].id = k
              /\ file.project = Some(frames'[i].project)
              /\ NaiveDateTime_parse_from_str(Unwrap(file.start)) = Some(frames'[i].start)
              /\ IsSome(file.stop)
              /\ NaiveDateTime_parse_from_str(Unwrap(file.stop)) = frames'[i].end
              /\ IsSome(frames'[i].end)
              /\ file.tags = Some(frames'[i].tags)
              /\ \A k \in DOMAIN frames \ {i} : frames'[k] = frames[k]]_vars

\* The first of two stored frames was edited to project "b" and a later end,
\* next to a second frame that is still of project "a".
C19_Witness ==
    /\ result.cmd = "Edit" /\ result.res = "Ok" /\ result.target = "completed"
    /\ result.id = Some(generate_id(0))
    /\ result.file.project = Some("b")
    /\ Cardinality(DOMAIN frames) = 2
    /\ frames[generate_id(0)].project = "b"
    /\ CompletedFrame_end(frames[generate_id(0)]) > 0
    /\ \E k \in DOMAIN frames : frames[k].project = "a"

\* C20: a successful Edit while a frame is ongoing leaves in the slot an
\* ongoing frame with the project, start and tags of the payload;
\* get_state_store still answers Ongoing and the store is unchanged, also
\* when the payload carries a stop.
C20_EditOngoingKeepsState ==
    [][(result'.cmd = "Edit" /\ result'.res = "Ok" /\ result'.target = "ongoing") =>
          LET file == result'.file
          IN  /\ IsSome(ongoing_frame)
              /\ ongoing_frame' =
                     Some([project |-> Unwrap(file.project),
                           start |-> Unwrap(NaiveDateTime_parse_from_str(Unwrap(file.start))),
                           tags |-> Unwrap(file.tags)])
              /\ get_state_store(ongoing_frame') = "Ongoing"
              /\ frames' = frames]_vars

\* The ongoing frame was edited to project "b" with a payload that carries a
\* stop, while the store held completed frames.
C20_Witness ==
    /\ result.cmd = "Edit" /\ result.res = "Ok" /\ result.target = "ongoing"
    /\ IsSome(result.file.stop)
    /\ result.file.project = Some("b")
    /\ IsSome(ongoing_frame) /\ Unwrap(ongoing_frame).project = "b"
    /\ frames # EmptyMap

\* C21: an Edit with an id is about the completed frame of that id, whether
\* or not a frame is ongoing, and answers InvalidFrame carrying the id and
\* changes nothing when the store has no such frame; an Edit without an id is
\* about the ongoing frame when there is one, else about a stored frame whose
\* end no stored frame exceeds, else it answers InvalidFrame carrying no id.
C21_EditSubject ==
    [][\A id \in {None} \cup {Some(i) : i \in EditIds} :
          Edit(id) =>
             /\ result'.cmd = "Edit"
             /\ IF IsSome(id)
                THEN /\ result'.target = "completed" /\ result'.id = id
                     /\ (result'.res = "InvalidFrame") <=> (Unwrap(id) \notin DOMAIN frames)
                     /\ (Unwrap(id) \notin DOMAIN frames) =>
                            UNCHANGED <<ongoing_frame, frames>>
                ELSE IF IsSome(ongoing_frame)
                THEN /\ result'.target = "ongoing" /\ result'.id = None
                     /\ result'.res # "InvalidFrame"
                ELSE IF DOMAIN frames # {}
                THEN /\ result'.target = "completed" /\ IsSome(result'.id)
                     /\ result'.res # "InvalidFrame"
                     /\ Unwrap(result'.id) \in DOMAIN frames
                     /\ \A k \in DOMAIN frames :
                            CompletedFrame_end(frames[k]) <=
                                CompletedFrame_end(frames[Unwrap(result'.id)])
                ELSE /\ result'.target = "none" /\ result'.id = None
                     /\ result'.res = "InvalidFrame"
                     /\ UNCHANGED <<ongoing_frame, frames>>]_vars

\* An Edit with the id of the earlier of two stored frames changed that frame
\* while a frame was ongoing, and the ongoing frame is as it was.
C21_Witness ==
    /\ result.cmd = "Edit" /\ result.res = "Ok" /\ result.target = "completed"
    /\ result.id = Some(generate_id(0))
    /\ ongoing_frame = Some(OngoingFrame_new("a", 1, << >>))
    /\ Cardinality(DOMAIN frames) = 2
    /\ frames[generate_id(0)].project = "b"
    /\ \E k \in DOMAIN frames :
          CompletedFrame_end(frames[k]) < CompletedFrame_end(frames[generate_id(0)])

----------------------------------------------------------------------------
(* Properties of the file store on the frames files a disk may hold,        *)
(* checked under SpecText                                                   *)

\* C22: when the frames file cannot be read or parsed, load, get_last_frame,
\* get_projects and save_frame of the file store answer with the error of
\* the load, and a Start with --no-gap does not succeed.
C22_StoreFailurePropagated ==
    /\ (/\ result.cmd \in {"Store_load", "get_last_frame", "get_projects", "save_frame"}
        /\ Store_load_text(result.text).res # "Ok")
          => result.res = Store_load_text(result.text).res
    /\ (/\ result.cmd = "Start"
        /\ Store_load_text(result.text).res # "Ok")
          => IF result.res = "Ok" THEN ~result.no_gap ELSE TRUE

\* A record is well-formed when it has six elements of the right types and a
\* project name that is not empty.
WellFormed(v) ==
    /\ IsSome(Frame_try_deserialize(v))
    /\ IsSome(NonEmptyString_new(Unwrap(v.project)))

\* The frames of the well-formed records of a frames file, in file order.
WellFormedFrames(text) ==
    LET good == SelectSeq(text.body, WellFormed)
    IN  [i \in 1..Len(good) |->
            CompletedFrame_from_watson(Unwrap(Frame_try_deserialize(good[i])))]

\* C23: loading a frames file that is a JSON array succeeds and yields the
\* frames of exactly its well-formed records, in file order, whatever other
\* records the array holds.
C23_LoadSkipsMalformedRecords ==
    (result.cmd \in {"Store_load", "CompletedFrameStore_load"} /\ result.text.kind = "json")
        => /\ result.res = "Ok"
           /\ result.ret = WellFormedFrames(result.text)

----------------------------------------------------------------------------
(* Properties of the ongoing-state file, checked under SpecState *)

\* C24: the file store reports an ongoing frame iff the state file is there
\* and is a JSON object with project, start and tags; in every other case
\* it reports none, without an error.  After clear_ongoing_frame it reports
\* none, whatever was stored before.
C24_StateFileMeansOngoing ==
    [][/\ result'.cmd = "get_ongoing_frame" =>
             LET text == result'.text
             IN  /\ result'.res = "Ok"
                 /\ IsSome(result'.ret) <=>
                        /\ text.kind = "json"
                        /\ IsSome(text.body.project)
                        /\ IsSome(text.body.start)
                        /\ IsSome(text.body.tags)
                 /\ IsSome(result'.ret) =>
                        /\ Unwrap(result'.ret).project = Unwrap(text.body.project)
                        /\ Unwrap(result'.ret).start = timestamp_opt(Unwrap(text.body.start))
                        /\ Unwrap(result'.ret).tags = Unwrap(text.body.tags)
                        /\ Unwrap(result'.ret).end = None
       /\ result.cmd = "clear_ongoing_frame" =>
             (result'.cmd = "get_ongoing_frame" => result'.ret = None)
       /\ result'.cmd = "clear_ongoing_frame" =>
             /\ result'.res = "Ok"
             /\ Store_get_ongoing_frame(state_text', now') = None]_vars

\* An ongoing frame of project "b" with tag "y" had been stored by
\* save_ongoing_frame; clear_ongoing_frame then left the file "{}", for which
\* the store reports no ongoing frame.
C24_Witness ==
    /\ result.cmd = "clear_ongoing_frame"
    /\ State_load(result.text) = Some([project |-> "b", start |-> 1, tags |-> <<"y">>])
    /\ state_text = JsonFile(EmptyObject)
    /\ Store_get_ongoing_frame(state_text, now) = None

----------------------------------------------------------------------------
(* Properties of the Watson record, checked under SpecCodec *)

\* C25: the record of a completed frame is the array of start seconds, end
\* seconds, project, id, tags and last_edit seconds in that order; decoding
\* it gives a frame with the same project, id and tag sequence whose start,
\* end and last_edit are the originals cut down to whole seconds.
C25_RecordRoundTrip ==
    /\ result.cmd \in {"encode", "decode"} =>
          LET f == result.frame
          IN  result.record =
                  << f.start \div TicksPerSecond, Unwrap(f.end) \div TicksPerSecond,
                     f.project, f.id, f.tags, f.last_edit \div TicksPerSecond >>
    /\ result.cmd = "decode" =>
          LET f == result.frame
              g == result.ret
          IN  /\ g.project = f.project /\ g.id = f.id /\ g.tags = f.tags
              /\ Len(g.tags) = Len(f.tags)
              /\ g.start = WholeSeconds(f.start)
              /\ g.end = Some(WholeSeconds(Unwrap(f.end)))
              /\ g.last_edit = WholeSeconds(f.last_edit)

\* A frame that started inside a second, ended a second later and carries the
\* same tag twice was encoded and decoded: the decoded start is earlier than
\* the original one and the three tags are there.
C25_Witness ==
    /\ result.cmd = "decode"
    /\ result.ret.start < result.frame.start
    /\ Unwrap(result.ret.end) > result.ret.start
    /\ result.ret.tags = <<"y", "x", "y">>
    /\ result.record[1] # result.record[2]

----------------------------------------------------------------------------
(* Properties of NonEmptyString, checked under SpecNames *)

\* C26: a NonEmptyString is never the empty string, whether it was built by
\* NonEmptyString::new, kept by the tag filter, or read from a JSON string
\* of a state file, a frames record or an edited payload.
C26_NonEmptyStringNeverEmpty ==
    /\ (/\ result.cmd \in {"NonEmptyString_new", "NonEmptyString_deserialize"}
        /\ IsSome(result.ret))
          => NonEmptyString_to_string(Unwrap(result.ret)) # ""
    /\ result.cmd = "filter_map" =>
          \A i \in 1..Len(result.ret) : NonEmptyString_to_string(result.ret[i]) # ""

\* The strings of a list that are not empty, in the order of the list.
NotEmpty(s) == s # ""
NonEmptyOnes(tags) == SelectSeq(tags, NotEmpty)

\* C27: NonEmptyString::new(s) is none iff s is the empty string, and for any
\* other s it is a value whose string form is s; the tag filter built on it
\* keeps exactly the tags that are not empty, in their order.
C27_NewNoneIffEmpty ==
    /\ result.cmd = "NonEmptyString_new" =>
          /\ (result.ret = None) <=> (result.arg = "")
          /\ result.arg # "" =>
                /\ IsSome(result.ret)
                /\ NonEmptyString_to_string(Unwrap(result.ret)) = result.arg
    /\ result.cmd = "filter_map" => result.ret = NonEmptyOnes(result.arg)

\* NonEmptyString::new was called on the empty string and answered none.
C27_Witness ==
    /\ result.cmd = "NonEmptyString_new" /\ result.arg = "" /\ result.ret = None

----------------------------------------------------------------------------
(* Frame ids, checked under Spec *)

\* C28: the id generated for the frame that a Stop completes differs from the
\* id of every frame made before it, also when the clock reads the same as
\* it did when an earlier id was generated.
C28_GeneratedIdsUnique ==
    [][(result'.cmd = "Stop" /\ result'.res = "Ok") =>
          result'.frame.id \notin DOMAIN frames]_vars

----------------------------------------------------------------------------
(* Properties of the single-slot backend, checked under SpecBackend *)

\* C29: clear answers true iff the slot held an ongoing frame when it was
\* called; the slot is empty afterwards in both cases, so that a get answers
\* none and a clear that follows a clear answers false.
C29_ClearReportsPresence ==
    [][/\ result'.cmd = "clear" =>
             /\ result'.ret = IsSome(ongoing_frame)
             /\ ongoing_frame' = None
             /\ Backend_get(ongoing_frame') = None
       /\ (result.cmd = "clear" /\ result'.cmd = "clear") => result'.ret = FALSE
       /\ (result.cmd = "clear" /\ result'.cmd = "get") => result'.ret = None]_vars

\* A frame was stored, a first clear answered true, and the clear after it
\* answered false.
C29_Witness ==
    /\ result.cmd = "clear" /\ result.ret = FALSE
    /\ result.prev[1] = "clear" /\ result.prev[2] = TRUE
    /\ ongoing_frame = None

----------------------------------------------------------------------------
(* Properties of two invocations saving to one frames file, checked under   *)
(* SpecRace                                                                 *)

\* The ids of the frames in the frames file, and in a loaded list.
FileIds == {Store_load(file_frames)[i].id : i \in 1..Len(file_frames)}
LoadedIds(p) == {procs[p].loaded[i].id : i \in 1..Len(procs[p].loaded)}

\* C30: when two invocations that save frames of different ids have both
\* reported success, and both had loaded the file before either wrote it,
\* the file holds the frame of only one of the two; when one of them loaded
\* after the other had written, the file holds both.
C30_RaceLosesUpdate ==
    \A p \in Procs : \A q \in Procs \ {p} :
        (procs # << >> /\ procs[p].res = "Ok" /\ procs[q].res = "Ok") =>
            /\ procs[p].frame.id # procs[q].frame.id
            /\ (/\ procs[q].frame.id \notin LoadedIds(p)
                /\ procs[p].frame.id \notin LoadedIds(q))
                  => Cardinality(FileIds \cap {procs[p].frame.id, procs[q].frame.id}) = 1
            /\ procs[q].frame.id \in LoadedIds(p)
                  => {procs[p].frame.id, procs[q].frame.id} \subseteq FileIds

\* Both invocations reported success, and the frame the first one saved is
\* not in the file, which had a frame in it before and still has it.
C30_Witness ==
    /\ procs # << >>
    /\ procs[1].res = "Ok" /\ procs[2].res = "Ok"
    /\ procs[1].frame.id \notin FileIds
    /\ procs[2].frame.id \in FileIds
    /\ generate_id(MaxTime + 1) \in FileIds

----------------------------------------------------------------------------
(* Further properties of the command layer, checked under Spec *)

\* C31: a Start with an empty project name executed while nothing is ongoing
\* answers InvalidProjectName and leaves the slot empty and the store as it
\* was; a Start with any other project name succeeds and stores an ongoing
\* frame of that project whose tags are the typed tags that are not empty,
\* in the order they were typed.
C31_StartValidatesInput ==
    [][\A input \in StartInputs, no_gap \in BOOLEAN :
          (ongoing_frame = None /\ Start(input[1], input[2], no_gap)) =>
             IF input[1] = ""
             THEN /\ result'.res = "InvalidProjectName"
                  /\ ongoing_frame' = None
                  /\ frames' = frames
             ELSE /\ result'.res = "Ok"
                  /\ IsSome(ongoing_frame')
                  /\ Unwrap(ongoing_frame').project = input[1]
                  /\ Unwrap(ongoing_frame').tags = NonEmptyOnes(input[2])
                  /\ frames' = frames]_vars

\* Project "b" was started with the tags "y", "" and "x": the ongoing frame
\* has the tags "y" and "x".
C31_Witness ==
    /\ result.cmd = "Start" /\ result.res = "Ok"
    /\ IsSome(ongoing_frame)
    /\ Unwrap(ongoing_frame).project = "b"
    /\ Unwrap(ongoing_frame).tags = <<"y", "x">>
    /\ <<"b", <<"y", "", "x">> >> \in StartInputs

\* C32: the ongoing frame stored by a successful Start starts at the end of
\* the last completed frame (an end that no stored frame exceeds) when
\* --no-gap was given and the store holds a frame, and at the clock reading
\* of the command in every other case.
C32_NoGapStartsAtLastEnd ==
    (result.cmd = "Start" /\ result.res = "Ok") =>
        /\ IsSome(ongoing_frame)
        /\ Unwrap(ongoing_frame).start = result.start
        /\ IF result.no_gap /\ DOMAIN frames # {}
           THEN /\ \E k \in DOMAIN frames : CompletedFrame_end(frames[k]) = result.start
                /\ \A k \in DOMAIN frames : CompletedFrame_end(frames[k]) <= result.start
           ELSE result.start = now

\* A Start with --no-gap was given the end of the stored frame, which lies
\* before the clock reading and after that frame's start.
C32_Witness ==
    /\ result.cmd = "Start" /\ result.res = "Ok" /\ result.no_gap
    /\ DOMAIN frames # {}
    /\ IsSome(ongoing_frame)
    /\ Unwrap(ongoing_frame).start < now
    /\ \E k \in DOMAIN frames :
          /\ CompletedFrame_end(frames[k]) = Unwrap(ongoing_frame).start
          /\ frames[k].start < CompletedFrame_end(frames[k])

\* C33: in a single process get_ongoing is never called on an empty slot: a
\* process about to call it holds an Ongoing handle and the slot still holds
\* a frame, and no get_ongoing call ends in the panic of its assertion.
C33_GetOngoingNeverPanics ==
    /\ \A p \in DOMAIN procs :
         /\ procs[p].pc \in {"get_ongoing", "clear"} =>
               (procs[p].handle = "Ongoing" /\ IsSome(ongoing_frame))
         /\ procs[p].res # "Panic"
    /\ result.cmd = "get_ongoing" => (IsSome(result.slot) /\ result.res # "Panic")

\* A Stop whose get_ongoing call found the frame its handle promised.
C33_Witness ==
    /\ DOMAIN procs = {1}
    /\ result.cmd = "get_ongoing"
    /\ result.command = "Stop"
    /\ IsSome(result.slot)
    /\ procs[1].pc = "clear"
    /\ IsSome(procs[1].frame)

\* C34: a Stop that fails with FrameStoreError leaves the ongoing frame in the
\* slot, so the interval is not lost and Stop can be run again.
C34_StopFailureKeepsFrame ==
    (result.cmd = "Stop" /\ result.res = "FrameStoreError") =>
        /\ IsSome(ongoing_frame)
        /\ ongoing_frame = result.slot

\* C35: a Start that read Stopped writes its frame and reports success
\* whatever the slot holds by then: of two Start invocations that both read
\* Stopped, both succeed, and the slot holds the frame of the later writer.
C35_StartRaceOverwrites ==
    (procs # << >> /\ result.cmd = "start") =>
        /\ procs[result.proc].handle = "Stopped"
        /\ result.res = "Ok"
        /\ procs[result.proc].res = "Ok"
        /\ IsSome(ongoing_frame)
        /\ Unwrap(ongoing_frame).project = ProcProject(result.proc)

\* Both invocations were Start, both read Stopped and reported success; the
\* second wrote over the frame the first had stored.
C35_Witness ==
    /\ DOMAIN procs = Procs
    /\ \A p \in Procs : /\ procs[p].cmd = "Start"
                        /\ procs[p].handle = "Stopped"
                        /\ procs[p].res = "Ok"
    /\ result.cmd = "start" /\ result.proc = 2
    /\ IsSome(result.slot)
    /\ Unwrap(result.slot).project = ProcProject(1)
    /\ Unwrap(ongoing_frame).project = ProcProject(2)
    /\ frames = << >>

\* C36: every successful Stop adds exactly one frame to the store and
\* replaces none, and every other step leaves the store as it was, so the
\* number of stored frames is the number of successful Stops.
C36_OneFramePerStop ==
    [][IF (\E at \in {None} \cup {Some(a) : a \in AtInputs} : Stop(at))
          /\ result'.res = "Ok"
       THEN /\ Cardinality(DOMAIN frames') = Cardinality(DOMAIN frames) + 1
            /\ \A k \in DOMAIN frames : frames'[k] = frames[k]
       ELSE frames' = frames]_vars

\* C37: Projects, Status and Log, with or without --current, leave the
\* ongoing slot and the completed-frame store exactly as they were.
C37_ReadOnlyCommands ==
    [][result'.cmd \in {"Projects", "Status", "Log"}
          => /\ ongoing_frame' = ongoing_frame
             /\ frames' = frames]_vars

\* A Log --current showed the stored frame and the frame built from the
\* ongoing one; the slot still holds the ongoing frame and the store only
\* the frame it had.
C37_Witness ==
    /\ result.cmd = "Log" /\ result.current
    /\ IsSome(ongoing_frame)
    /\ Cardinality(DOMAIN frames) = 1
    /\ Len(result.shown) = 2
    /\ result.shown[2].project = Unwrap(ongoing_frame).project
    /\ result.shown[2].start = Unwrap(ongoing_frame).start
    /\ \A k \in DOMAIN frames : frames[k] # result.shown[2]

\* The keys of the groups that hold position i of the slice.
GroupsOf(i) ==
    {k \in DOMAIN result.map : \E j \in 1..Len(result.map[k]) : result.map[k][j] = i}

----------------------------------------------------------------------------
(* Order of the stored frames, checked under SpecStore *)

\* C40: the frames of the file store are in ascending order of start after
\* every sequence of save_frame calls, and so is every list get_frames of
\* the in-memory store returns.
C40_FramesSortedByStart ==
    /\ LET loaded == Store_load(file_frames)
       IN  \A i \in 1..(Len(loaded) - 1) : loaded[i].start <= loaded[i + 1].start
    /\ result.cmd = "get_frames" =>
          \A i \in 1..(Len(result.ret) - 1) :
              result.ret[i].start <= result.ret[i + 1].start

\* A save_frame replaced a stored frame by one with an earlier start: the
\* frame, pushed last, is now first in the file, before a later frame.
C40_Witness ==
    /\ result.cmd = "save_frame" /\ result.existed
    /\ Len(file_frames) >= 2
    /\ Store_load(file_frames)[1].id = result.frame.id
    /\ Store_load(file_frames)[1].start < Store_load(file_frames)[2].start

====
